---------------------------- MODULE Spec2Model ----------------------------
(***************************************************************************)
(* A model of the V4 inference runtime of web-rwkv: the tensor layer       *)
(* (src/src/tensor.rs), the recurrent state and the inference job          *)
(* (src/src/runtime/v4.rs).                                                *)
(*                                                                         *)
(* Tensors are modelled at element granularity.  A shape is a 4-tuple      *)
(* <<d0, d1, d2, d3>> with axis 0 fastest; the data of a tensor is the     *)
(* flat sequence of its elements in memory order.  Rust indices are        *)
(* 0-based; element k of a Rust slice is element k + 1 of the sequence.    *)
(***************************************************************************)
EXTENDS Integers, Sequences, FiniteSets, TLC

\* ------------------------------------------------------------------ bounds
\* Largest embedding width, layer count and batch count of a model/state.
MaxEmb == 2
MaxLayer == 2
MaxBatch == 2
\* Most tokens of one batch of a seed or an input.
MaxTok == 1

\* ------------------------------------------------------- program constants
\* f32::MIN, the value of the pp channel after init.  The element domain of
\* the model is a small set of integers; this is its least member.
F32_MIN == -9
\* size_of::<f32>()
F32_SIZE == 4

\* ------------------------------------------------------------ tensor layer
Rep(v, n) == [i \in 1..n |-> v]

RECURSIVE Flatten(_)
Flatten(ss) == IF ss = <<>> THEN <<>> ELSE Head(ss) \o Flatten(Tail(ss))

\* TensorShape::len: the product of the four dimensions.
ShapeLen(shape) == shape[1] * shape[2] * shape[3] * shape[4]

\* shape_index with each step scaled by the extent of the axis just added
\* instead of the next faster one.
shape_index_OwnAxis(shape, indices) ==
    LET a == indices[4]
        b == a * shape[4] + indices[3]
        c == b * shape[3] + indices[2]
        d == c * shape[2] + indices[1]
    IN  d

\* Tensor::shape_index: ((i3*d2 + i2)*d1 + i1)*d0 + i0, computed as the code
\* does, by Horner steps from the slowest axis.
shape_index(shape, indices) ==
    LET a == indices[4]
        b == a * shape[3] + indices[3]
        c == b * shape[2] + indices[2]
        d == c * shape[1] + indices[1]
    IN  d

\* Tensor::byte_size
byte_size(shape, elem) == ShapeLen(shape) * elem

\* TensorCpu::new that accepts data longer than the shape.
TensorCpu_new_AtLeast(shape, data) ==
    IF ShapeLen(shape) > Len(data)
    THEN [ok |-> FALSE, err |-> <<"Size", ShapeLen(shape), Len(data)>>]
    ELSE [ok |-> TRUE, shape |-> shape, data |-> data]

\* TensorCpu::new: Err(Size(shape.len, data.len)) unless the lengths agree.
TensorCpu_new(shape, data) ==
    IF ShapeLen(shape) # Len(data)
    THEN [ok |-> FALSE, err |-> <<"Size", ShapeLen(shape), Len(data)>>]
    ELSE [ok |-> TRUE, shape |-> shape, data |-> data]

\* The comparison of TensorGpu::new between the end of the tensor and the
\* size of the buffer.
Overflows(end, buffer_size) == end >= buffer_size

\* TensorGpu::new over (buffer of buffer_size bytes, byte offset, shape) of
\* elements of elem bytes.
TensorGpu_new(buffer_size, offset, shape, elem) ==
    LET size == ShapeLen(shape) * elem
    IN  IF Overflows(offset + size, buffer_size)
        THEN [ok |-> FALSE,
              err |-> <<"Overflow", buffer_size, offset, size>>]
        ELSE [ok |-> TRUE, shape |-> shape, offset |-> offset,
              buffer_size |-> buffer_size]

\* TensorGpu::init: a fresh buffer of exactly shape.len * size_of::<T>()
\* bytes, the tensor at offset 0.  It does not go through TensorGpu::new.
TensorGpu_init(shape, elem) ==
    [ok |-> TRUE, shape |-> shape, offset |-> 0,
     buffer_size |-> ShapeLen(shape) * elem]

\* check_shape: Err(Shape(actual, expected)) unless the shapes are equal.
check_shape(shape, expected) ==
    IF shape = expected THEN [ok |-> TRUE]
    ELSE [ok |-> FALSE, err |-> <<"Shape", shape, expected>>]

\* TensorGpu::view restricted to axis 1 (the other axes are taken whole): the
\* rows [start, end) of a tensor, an error when the range leaves the axis.
view_axis1(shape, start, end) ==
    IF start > end \/ end > shape[2]
    THEN [ok |-> FALSE, err |-> <<"SliceOutOfRange", shape[2], start, end>>]
    ELSE [ok |-> TRUE, start |-> start, end |-> end,
          shape |-> <<shape[1], end - start, shape[3], shape[4]>>]

\* The elements of batch `batch` (axis 2) of a tensor of shape `shape`, in
\* memory order: d0 * d1 consecutive elements starting at batch * d0 * d1.
BatchSlice(shape, data, batch) ==
    SubSeq(data, batch * shape[1] * shape[2] + 1,
                 (batch + 1) * shape[1] * shape[2])

\* `data` with the elements of batch `batch` replaced by `slice`.
WithBatch(shape, data, batch, slice) ==
    [k \in 1..Len(data) |->
        IF  /\ k > batch * shape[1] * shape[2]
            /\ k <= (batch + 1) * shape[1] * shape[2]
        THEN slice[k - batch * shape[1] * shape[2]]
        ELSE data[k]]

\* TensorGpu::load_batch: upload a one-batch host tensor into slice
\* axis-2 = batch of a device tensor.
load_batch(shape, data, host, batch) ==
    LET chk == check_shape(host.shape, <<shape[1], shape[2], 1, 1>>)
    IN  IF ~chk.ok THEN chk
        ELSE IF batch >= shape[3]
        THEN [ok |-> FALSE, err |-> <<"BatchOutOfRange", batch, shape[3]>>]
        ELSE [ok |-> TRUE, data |-> WithBatch(shape, data, batch, host.data)]

\* CommandEncoder::copy_tensor_batch: copy exactly one slice along axis 2
\* from batch `from` of src into batch `to` of dst.
copy_tensor_batch(src_shape, src_data, dst_shape, dst_data, from, to) ==
    LET chk == check_shape(<<src_shape[1], src_shape[2], 1, 1>>,
                           <<dst_shape[1], dst_shape[2], 1, 1>>)
    IN  IF ~chk.ok THEN chk
        ELSE IF from >= src_shape[3]
        THEN [ok |-> FALSE,
              err |-> <<"BatchOutOfRange", from, src_shape[3]>>]
        ELSE IF to >= dst_shape[3]
        THEN [ok |-> FALSE, err |-> <<"BatchOutOfRange", to, dst_shape[3]>>]
        ELSE [ok |-> TRUE,
              data |-> WithBatch(dst_shape, dst_data, to,
                                 BatchSlice(src_shape, src_data, from))]

\* ------------------------------------------------------------------- State
\* InitLayer with the f32::MIN row last instead of fourth.
InitLayer_PpLast(num_emb) ==
    Flatten(<<Rep(0, num_emb), Rep(0, num_emb), Rep(0, num_emb),
              Rep(0, num_emb), Rep(F32_MIN, num_emb)>>)

\* The rows one layer contributes to a state: x-shift, aa, bb, pp, ffn
\* x-shift, each num_emb wide; pp starts at f32::MIN, the others at 0.
InitLayer(num_emb) ==
    Flatten(<<Rep(0, num_emb), Rep(0, num_emb), Rep(0, num_emb),
              Rep(F32_MIN, num_emb), Rep(0, num_emb)>>)

\* State::init: the one-batch host tensor of a fresh state.
State_init(inf) ==
    LET data == Flatten([l \in 1..inf.num_layer |-> InitLayer(inf.num_emb)])
        shape == <<inf.num_emb, 5 * inf.num_layer, 1, 1>>
    IN  TensorCpu_new(shape, data)

\* ModelRuntime::new: the shape of the device state for num_batch batches.
StateShape(inf, num_batch) == <<inf.num_emb, 5 * inf.num_layer, num_batch, 1>>

\* A device state created zeroed, as tensor_init would.
StateData_Zeroed(inf, num_batch) ==
    Rep(0, ShapeLen(StateShape(inf, num_batch)))

\* ModelRuntime::new: the initial contents of the device state.
StateData(inf, num_batch) ==
    Flatten([k \in 1..(inf.num_layer * num_batch) |-> InitLayer(inf.num_emb)])

\* State::att with an inclusive end: rows [5*layer, 5*layer + 4].
State_att_Inclusive(shape, layer) ==
    LET start == 5 * layer
        end == start + 4
    IN  view_axis1(shape, start, end + 1)

\* State::att: the view of rows [5*layer, 5*layer + 4).
State_att(shape, layer) ==
    LET start == 5 * layer
        end == start + 4
    IN  view_axis1(shape, start, end)

\* State::ffn: the view of rows 5*layer+4 ..= 5*layer+4.
State_ffn(shape, layer) ==
    LET start == 5 * layer + 4
    IN  view_axis1(shape, start, start + 1)

\* State::num_batch
num_batch(shape) == shape[3]

\* State::load that takes a batch index out of range for the last batch.
State_load_Clamped(inf, shape, data, batch, tensor) ==
    LET chk == check_shape(tensor.shape,
                           <<inf.num_emb, inf.num_layer * 5, 1, 1>>)
        last == IF batch >= shape[3] THEN shape[3] - 1 ELSE batch
    IN  IF ~chk.ok THEN chk ELSE load_batch(shape, data, tensor, last)

\* State::load on a state of shape `shape` whose buffer holds `data`.
State_load(inf, shape, data, batch, tensor) ==
    LET chk == check_shape(tensor.shape,
                           <<inf.num_emb, inf.num_layer * 5, 1, 1>>)
    IN  IF ~chk.ok THEN chk ELSE load_batch(shape, data, tensor, batch)

\* State::back that reads batch 0 whatever batch is asked for.
State_back_BatchZero(shape, data, batch) ==
    LET tshape == <<shape[1], shape[2], 1, 1>>
        tensor == TensorGpu_init(tshape, F32_SIZE)
        fresh == Rep(0, ShapeLen(tshape))
        cp == copy_tensor_batch(shape, data, tshape, fresh, 0, 0)
    IN  IF ~cp.ok THEN cp
        ELSE [ok |-> TRUE, shape |-> tensor.shape, data |-> cp.data]

\* State::back (inherent): a fresh tensor of shape (d0, d1, 1, 1), one batch
\* copied into it, read back to the host.
State_back(shape, data, batch) ==
    LET tshape == <<shape[1], shape[2], 1, 1>>
        tensor == TensorGpu_init(tshape, F32_SIZE)
        fresh == Rep(0, ShapeLen(tshape))
        cp == copy_tensor_batch(shape, data, tshape, fresh,
                                batch, 0)
    IN  IF ~cp.ok THEN cp
        ELSE [ok |-> TRUE, shape |-> tensor.shape, data |-> cp.data]

\* ------------------------------------------------- infer info and redirect
\* An InferInfo (the seed of a build) is a sequence of batches
\* [len |-> number of tokens, output |-> whether the logits are asked for].
\* An InferChunk (the input of a load) is a sequence of token counts, one per
\* batch: the token ids decide the values uploaded, never a shape or an
\* error, and are left out.
RECURSIVE SumLens(_)
SumLens(lens) == IF lens = <<>> THEN 0 ELSE Head(lens) + SumLens(Tail(lens))

\* InferInfo::num_token: the sum over the batches of the token counts.
InferInfo_num_token(seed) == SumLens([b \in 1..Len(seed) |-> seed[b].len])

\* InferChunk::num_token
InferChunk_num_token(input) == SumLens(input)

\* InferInfo::redirect: headers are the packed positions of the last token of
\* every batch that has tokens and asks for output; outputs[b] is the range
\* of header slots of batch b, empty for the other batches.
RECURSIVE Redirect(_, _, _, _)
Redirect(seed, p_in, headers, outputs) ==
    IF seed = <<>> THEN [headers |-> headers, outputs |-> outputs]
    ELSE LET batch == Head(seed)
             p_out == Len(headers)
         IN  IF batch.len > 0 /\ batch.output
             THEN Redirect(Tail(seed), p_in + batch.len,
                           Append(headers, p_in + batch.len - 1),
                           Append(outputs, <<p_out, p_out + 1>>))
             ELSE Redirect(Tail(seed), p_in + batch.len, headers,
                           Append(outputs, <<p_out, p_out>>))

InferInfo_redirect(seed) == Redirect(seed, 0, <<>>, <<>>)

\* IntoPackedCursors: one cursor per token, (batch, index within the batch,
\* number of tokens of the batch), in packed order.
RECURSIVE Cursors(_, _)
Cursors(lens, batch) ==
    IF lens = <<>> THEN <<>>
    ELSE [j \in 1..Head(lens) |-> <<batch, j - 1, Head(lens)>>]
         \o Cursors(Tail(lens), batch + 1)

into_cursors(lens) == Cursors(lens, 0)

\* --------------------------------------------------------------------- job
\* A command buffer is named by the pass it records.
PreludePass == [pass |-> "prelude", index |-> 0]
LayerPass(l) == [pass |-> "layer", index |-> l]
HeadPass == [pass |-> "head", index |-> 0]

\* The list ModelRuntime::build records without the async-build feature: the
\* prelude, the layers in index order, the head.
SequentialCommands(num_layer) ==
    <<PreludePass>> \o [k \in 1..num_layer |-> LayerPass(k - 1)]
                    \o <<HeadPass>>

\* Runtime::new / Header::new: the shapes of the job's buffers.
CursorsShape(num_token) == <<num_token, 1, 1, 1>>
InputShape(inf, num_token) == <<inf.num_emb, num_token, 1, 1>>
OutputShape(inf, num_header) == <<inf.num_vocab, num_header, 1, 1>>

\* build without its num_token == 0 branch.
BuildCommands_NoEmptyBranch(inf, num_token) ==
    SequentialCommands(inf.num_layer)

\* The commands of the job ModelRuntime::build returns for num_token tokens.
BuildCommands(inf, num_token) ==
    IF num_token = 0 THEN <<>> ELSE SequentialCommands(inf.num_layer)

\* ModelRuntime::build: the job for a seed.  Device buffers are created
\* zeroed; `uploaded` is the set of the job's buffers a load has written.
\* seed, alive, loaded, submitted and backed are history: the seed of the
\* build, whether the job value still exists, and which of load, submit and
\* back have returned on it.
InferJob(inf, device, seed) ==
    LET num_token == InferInfo_num_token(seed)
        redirect == InferInfo_redirect(seed)
        num_header == Len(redirect.headers)
    IN  [commands |-> BuildCommands(inf, num_token),
         redirect |-> redirect,
         embed_device |-> device,
         cursors_shape |-> CursorsShape(num_token),
         cursors |-> Rep(<<0, 0, 0>>, num_token),
         output_shape |-> OutputShape(inf, num_header),
         uploaded |-> {}, seed |-> seed,
         alive |-> TRUE, loaded |-> FALSE, submitted |-> FALSE,
         backed |-> FALSE]

\* check with || in place of &&.
InferJob_check_Either(j, input, seed) ==
    \/ InferChunk_num_token(input) = j.cursors_shape[1]
    \/ InferInfo_redirect(seed) = j.redirect

\* InferJob::check
InferJob_check(j, input, seed) ==
    /\ InferChunk_num_token(input) = j.cursors_shape[1]
    /\ InferInfo_redirect(seed) = j.redirect

\* TensorStack::try_from: the per-batch tensors (num_emb, len, 1, 1) stacked
\* along axis 1, with one cursor per token.
TensorStack_try_from(num_emb, lens) ==
    IF lens = <<>> THEN [ok |-> FALSE, err |-> <<"Empty">>]
    ELSE [ok |-> TRUE,
          shape |-> <<num_emb, SumLens(lens), 1, 1>>,
          cursors |-> lens]

\* A load that uploads the cursors without sizing them to the job's tensor.
InferJob_load_UnsizedCursors(inf, j, input) ==
    IF InferChunk_num_token(input) = 0
    THEN [ok |-> TRUE, job |-> j, wrote |-> {}]
    ELSE
    LET stack == TensorStack_try_from(inf.num_emb, input)
        cursors == into_cursors(stack.cursors)
        j1 == [j EXCEPT !.cursors = cursors,
                        !.uploaded = @ \cup {"cursors"}]
        chk == check_shape(stack.shape,
                           InputShape(inf, j.cursors_shape[1]))
    IN  IF ~stack.ok THEN [ok |-> FALSE, err |-> stack.err, wrote |-> {}]
        ELSE IF j.embed_device = "Cpu"
        THEN IF ~chk.ok
             THEN [ok |-> FALSE, err |-> chk.err, wrote |-> {"cursors"}]
             ELSE [ok |-> TRUE,
                   job |-> [j1 EXCEPT !.uploaded = @ \cup {"input"}],
                   wrote |-> {"cursors", "input"}]
        ELSE [ok |-> TRUE,
              job |-> [j1 EXCEPT !.uploaded = @ \cup {"tokens"}],
              wrote |-> {"cursors", "tokens"}]

\* InferJob::load.  `self` is taken by value: Ok gives the job back, Err
\* drops it.  `wrote` is the set of device buffers the call uploaded into.
InferJob_load(inf, j, input) ==
    IF InferChunk_num_token(input) = 0
    THEN [ok |-> TRUE, job |-> j, wrote |-> {}]
    ELSE
    LET stack == TensorStack_try_from(inf.num_emb, input)
        cursors == into_cursors(stack.cursors)
        host_cursors == TensorCpu_new(j.cursors_shape, cursors)
        j1 == [j EXCEPT !.cursors = cursors,
                        !.uploaded = @ \cup {"cursors"}]
        chk == check_shape(stack.shape,
                           InputShape(inf, j.cursors_shape[1]))
    IN  IF ~stack.ok THEN [ok |-> FALSE, err |-> stack.err, wrote |-> {}]
        ELSE IF ~host_cursors.ok
        THEN [ok |-> FALSE, err |-> host_cursors.err, wrote |-> {}]
        ELSE IF j.embed_device = "Cpu"
        THEN IF ~chk.ok
             THEN [ok |-> FALSE, err |-> chk.err, wrote |-> {"cursors"}]
             ELSE [ok |-> TRUE,
                   job |-> [j1 EXCEPT !.uploaded = @ \cup {"input"}],
                   wrote |-> {"cursors", "input"}]
        ELSE [ok |-> TRUE,
              job |-> [j1 EXCEPT !.uploaded = @ \cup {"tokens"}],
              wrote |-> {"cursors", "tokens"}]

\* A submit that hands over a copy of the list and keeps the list.
InferJob_submit_KeepList(j) ==
    [taken |-> j.commands, job |-> j]

\* InferJob::submit: std::mem::take leaves the job's list empty; the taken
\* list is what the queue receives.
InferJob_submit(j) ==
    [taken |-> j.commands, job |-> [j EXCEPT !.commands = <<>>]]

\* TensorCpu::slice restricted to axis 1: rows [start, end) as a fresh tensor.
slice_axis1(shape, start, end) ==
    IF start > end \/ end > shape[2]
    THEN [ok |-> FALSE, err |-> <<"SliceOutOfRange", shape[2], start, end>>]
    ELSE [ok |-> TRUE, start |-> start, end |-> end,
          shape |-> <<shape[1], end - start, shape[3], shape[4]>>]

\* back with an inclusive range, start..=end, for every slot.
InferJob_back_Inclusive(j) ==
    LET slots == [b \in 1..Len(j.redirect.outputs) |->
                    slice_axis1(j.output_shape, j.redirect.outputs[b][1],
                                j.redirect.outputs[b][2] + 1)]
        bad == {b \in 1..Len(slots) : ~slots[b].ok}
    IN  IF bad # {}
        THEN slots[CHOOSE b \in bad : \A c \in bad : b <= c]
        ELSE [ok |-> TRUE, output |-> slots]

\* InferJob::back: the output tensor read back and cut by redirect.outputs,
\* one slot per entry, the first failing slice failing the whole call.
InferJob_back(j) ==
    LET slots == [b \in 1..Len(j.redirect.outputs) |->
                    slice_axis1(j.output_shape, j.redirect.outputs[b][1],
                                j.redirect.outputs[b][2])]
        bad == {b \in 1..Len(slots) : ~slots[b].ok}
    IN  IF bad # {}
        THEN slots[CHOOSE b \in bad : \A c \in bad : b <= c]
        ELSE [ok |-> TRUE, output |-> slots]

\* ------------------------------------------------------- device execution
\* The batches a recurrent kernel writes: those of the cursors of a loaded
\* input, restricted to the state.  A cursor of length 0 is what a job that
\* was never loaded holds (a zeroed buffer): whether the kernel writes for it
\* is not fixed, `zero` is the choice.  A cursor of a batch outside the state
\* addresses past the buffer: the device drops the write or clamps it into
\* the buffer, `clamp` is the choice.
Touched(cursors, nb, zero, clamp) ==
    LET named == {cursors[k][1] : k \in
                    {k \in 1..Len(cursors) : cursors[k][3] > 0 \/ zero}}
    IN  {b \in named : b < nb}
        \cup (IF clamp /\ (\E b \in named : b >= nb) THEN {nb - 1} ELSE {})

\* `data` with rows [start, end) of the batches in `batches` overwritten by
\* the value v (element (i0, i1, i2, 0) lives at shape_index + 1).
WriteRows(shape, data, start, end, batches, v) ==
    LET at == {shape_index(shape, <<i0, i1, i2, 0>>) + 1 :
                 i0 \in 0..(shape[1] - 1), i1 \in start..(end - 1),
                 i2 \in batches}
    IN  [k \in 1..Len(data) |-> IF k \in at THEN v ELSE data[k]]

\* One command buffer executed on the device.  A layer pass runs time_mix_v4
\* on State::att(index) and channel_mix on State::ffn(index); the prelude
\* and the head touch no state.
ExecPass(shape, data, cmd, batches) ==
    IF cmd.pass # "layer" THEN data
    ELSE LET att == State_att(shape, cmd.index)
             ffn == State_ffn(shape, cmd.index)
             d1 == WriteRows(shape, data, att.start, att.end, batches, 1)
         IN  WriteRows(shape, d1, ffn.start, ffn.end, batches, 1)

\* The queue executes command buffers in submission order.
RECURSIVE Exec(_, _, _, _)
Exec(shape, data, cmds, batches) ==
    IF cmds = <<>> THEN data
    ELSE Exec(shape, ExecPass(shape, data, Head(cmds), batches),
              Tail(cmds), batches)

\* DeepClone for TensorGpu: the id of the buffer that holds the copy.  The
\* clone is a new buffer, never the one it copies.
CloneBuffer(src) == IF src = 1 THEN 2 ELSE 1

\* deep_clone as a plain clone: the data handle is shared.
State_deep_clone_Shared(st, mem) ==
    [state |-> st, mem |-> mem]

\* DeepClone for State: the data deep-cloned, the rest of the struct cloned.
State_deep_clone(st, mem) ==
    LET fresh == CloneBuffer(st.buffer)
    IN  [state |-> [st EXCEPT !.buffer = fresh],
         mem |-> [mem EXCEPT ![fresh] = mem[st.buffer]]]

\* ------------------------------------------------------ ops of the passes
\* Model::RESCALE_LAYER
RESCALE_LAYER == 6

\* The named hook points.  A point of a layer is <<name, layer>>, the others
\* are <<name>>.
PreludeHooks == {<<"PostEmbedLoaded">>, <<"PostEmbedLayerNorm">>}
HeadHooks == {<<"PreHead">>, <<"PostHeadLayerNorm">>, <<"PostHead">>}
LayerHookNames ==
    {"PreAtt", "PostAttLayerNorm", "PreAttTokenShift", "PostAttTokenShift",
     "PreAttLinear", "PostAttLinear", "PreAttTimeMix", "PostAttTimeMix",
     "PreAttOut", "PostAttOut", "PostAtt", "PreFfn", "PostFfnLayerNorm",
     "PreFfnTokenShift", "PostFfnTokenShift", "PreFfnLinear",
     "PostFfnLinear", "PostFfnActivate", "PreFfnChannelMix",
     "PostFfnChannelMix", "PostFfn"}
LayerHooks(l) == {<<name, l>> : name \in LayerHookNames}
Hooks(num_layer) ==
    PreludeHooks \cup HeadHooks
        \cup UNION {LayerHooks(l) : l \in 0..(num_layer - 1)}

\* The layer norms whose weights a model carries: an op over a tensor of the
\* wrong shape fails its shape check when it is recorded.
Norms(num_layer) ==
    {<<"embed.layer_norm">>, <<"head.layer_norm">>}
        \cup {<<"att_layer_norm", l>> : l \in 0..(num_layer - 1)}
        \cup {<<"ffn_layer_norm", l>> : l \in 0..(num_layer - 1)}

\* The outcome of recording one op: Ok(op) or Err(error).  An op is named by
\* its kind and, for the op of a hook point, the point.
OkOp(kind) == [ok |-> TRUE, op |-> [kind |-> kind, hook |-> <<>>]]
ErrOp(err) == [ok |-> FALSE, err |-> err]

\* hook_op: the producer registered for the point, called; TensorOp::empty()
\* when the map has no entry.  env.hooks is the set of points with a producer,
\* env.failing the set of recording steps (producers, shape checks) that
\* return an error.
hook_op(env, hook) ==
    IF hook \in env.hooks \cup env.failing
    THEN IF hook \in env.failing THEN ErrOp(<<"Hook", hook>>)
         ELSE [ok |-> TRUE, op |-> [kind |-> "user", hook |-> hook]]
    ELSE [ok |-> TRUE, op |-> [kind |-> "empty", hook |-> hook]]

\* TensorOp::layer_norm over the weights `norm`: the shape check, then the op.
layer_norm(env, norm) ==
    IF norm \in env.failing THEN ErrOp(<<"Shape", norm>>)
    ELSE OkOp("layer_norm")

\* vec![a?, b?, ...]: the steps are evaluated in order and the first error
\* returns; Ok gives the list of the ops.
TryOps(steps) ==
    LET bad == {k \in DOMAIN steps : ~steps[k].ok}
    IN  IF bad = {}
        THEN [ok |-> TRUE, ops |-> [k \in DOMAIN steps |-> steps[k].op]]
        ELSE [ok |-> FALSE,
              err |-> steps[CHOOSE k \in bad : \A j \in bad : k <= j].err]

\* The ops of the prelude pass: the embed lookup when the embeddings are on
\* the device, then the hooks around the embedding layer norm.
PreludeOps(env, device) ==
    TryOps((IF device = "Gpu" THEN <<OkOp("embed")>> ELSE <<>>)
           \o <<hook_op(env, <<"PostEmbedLoaded">>),
                layer_norm(env, <<"embed.layer_norm">>),
                hook_op(env, <<"PostEmbedLayerNorm">>)>>)

\* The rescale recorded in the layers whose index is a multiple of
\* RESCALE_LAYER.
Rescales_AtMultiples(index) == index % RESCALE_LAYER = 0

\* Whether build_layer records the 0.5 rescale of ffn_x in layer `index`.
Rescales(index) == (index + 1) % RESCALE_LAYER = 0

\* Build<Model>::build: the exponent e of the discount 2^(-e) applied to w_o
\* and the ffn w_v of layer `layer`.
DiscountExponent(layer) == layer \div RESCALE_LAYER

\* MIN_TOKEN_CHUNK_SIZE, the least number of tokens of the turbo kernels.
MIN_TOKEN_CHUNK_SIZE == 32

\* turbo that is set whatever the number of tokens.
turbo_Always(num_token) == TRUE

\* turbo: whether the number of tokens is a multiple of the chunk size.
turbo(num_token) == num_token % MIN_TOKEN_CHUNK_SIZE = 0

\* The ops with operands.  Buffers of the job are named; a view of the state
\* is the range of rows <<start, end>> it covers.
CopyTensor(src, dst) ==
    [ok |-> TRUE,
     op |-> [kind |-> "copy_tensor", hook |-> <<>>, src |-> src, dst |-> dst]]

token_shift(view, x, out) ==
    IF ~view.ok THEN view
    ELSE [ok |-> TRUE,
          op |-> [kind |-> "token_shift", hook |-> <<>>,
                  state |-> <<view.start, view.end>>, x |-> x, out |-> out]]

matmul_op(w, x, out, act, flag) ==
    [ok |-> TRUE,
     op |-> [kind |-> "matmul", hook |-> <<>>, w |-> w, x |-> x, out |-> out,
             act |-> act, turbo |-> flag]]

time_mix_v4(view, x) ==
    IF ~view.ok THEN view
    ELSE [ok |-> TRUE,
          op |-> [kind |-> "time_mix_v4", hook |-> <<>>,
                  state |-> <<view.start, view.end>>, x |-> x]]

channel_mix(view, x) ==
    IF ~view.ok THEN view
    ELSE [ok |-> TRUE,
          op |-> [kind |-> "channel_mix", hook |-> <<>>,
                  state |-> <<view.start, view.end>>, x |-> x]]

BlitWhole(src, dst) ==
    [ok |-> TRUE,
     op |-> [kind |-> "blit", hook |-> <<>>, src |-> src, dst |-> dst]]

\* add(input, output): output += input.
add(input, output) ==
    [ok |-> TRUE,
     op |-> [kind |-> "add", hook |-> <<>>, src |-> input, dst |-> output]]

\* discount(x, factor), the factor as <<numerator, denominator>>.
discount(x, factor) ==
    [ok |-> TRUE,
     op |-> [kind |-> "discount", hook |-> <<>>, x |-> x, factor |-> factor]]

\* The shape of the state the ops of a model of num_layer layers view (the
\* rows of the views do not depend on the width or the batches).
ViewedState(num_layer) == <<1, 5 * num_layer, 1, 1>>

\* The attention pass with time_mix_v4 recorded ahead of the token shifts.
AttSteps_MixFirst(env, index, num_layer, num_token) ==
    LET att == State_att(ViewedState(num_layer), index)
    IN  <<hook_op(env, <<"PreAtt", index>>),
          layer_norm(env, <<"att_layer_norm", index>>),
          hook_op(env, <<"PostAttLayerNorm", index>>),
          hook_op(env, <<"PreAttTokenShift", index>>),
          BlitWhole("att_x", "aux_x"),
          time_mix_v4(att, "aux_x"),
          BlitWhole("aux_x", "att_x"),
          token_shift(att, "att_x", "att_kx"),
          token_shift(att, "att_x", "att_vx"),
          token_shift(att, "att_x", "att_rx"),
          hook_op(env, <<"PostAttTokenShift", index>>),
          hook_op(env, <<"PreAttLinear", index>>),
          matmul_op("att.w_k", "att_kx", "att_k", "None", turbo(num_token)),
          matmul_op("att.w_v", "att_vx", "att_v", "None", turbo(num_token)),
          matmul_op("att.w_r", "att_rx", "att_r", "None", turbo(num_token)),
          hook_op(env, <<"PostAttLinear", index>>),
          hook_op(env, <<"PreAttTimeMix", index>>),
          hook_op(env, <<"PostAttTimeMix", index>>),
          hook_op(env, <<"PreAttOut", index>>),
          matmul_op("att.w_o", "att_x", "att_o", "None", turbo(num_token)),
          hook_op(env, <<"PostAttOut", index>>),
          add("input", "att_o"),
          hook_op(env, <<"PostAtt", index>>)>>

\* build_layer, the ops of the attention compute pass.
AttSteps(env, index, num_layer, num_token) ==
    LET att == State_att(ViewedState(num_layer), index)
    IN  <<hook_op(env, <<"PreAtt", index>>),
          layer_norm(env, <<"att_layer_norm", index>>),
          hook_op(env, <<"PostAttLayerNorm", index>>),
          hook_op(env, <<"PreAttTokenShift", index>>),
          token_shift(att, "att_x", "att_kx"),
          token_shift(att, "att_x", "att_vx"),
          token_shift(att, "att_x", "att_rx"),
          hook_op(env, <<"PostAttTokenShift", index>>),
          hook_op(env, <<"PreAttLinear", index>>),
          matmul_op("att.w_k", "att_kx", "att_k", "None", turbo(num_token)),
          matmul_op("att.w_v", "att_vx", "att_v", "None", turbo(num_token)),
          matmul_op("att.w_r", "att_rx", "att_r", "None", turbo(num_token)),
          hook_op(env, <<"PostAttLinear", index>>),
          hook_op(env, <<"PreAttTimeMix", index>>),
          BlitWhole("att_x", "aux_x"),
          time_mix_v4(att, "aux_x"),
          BlitWhole("aux_x", "att_x"),
          hook_op(env, <<"PostAttTimeMix", index>>),
          hook_op(env, <<"PreAttOut", index>>),
          matmul_op("att.w_o", "att_x", "att_o", "None", turbo(num_token)),
          hook_op(env, <<"PostAttOut", index>>),
          add("input", "att_o"),
          hook_op(env, <<"PostAtt", index>>)>>

\* The feed-forward pass with the hook points in the order of the Hook enum,
\* where PostFfnLinear comes before PostFfnActivate.
FfnSteps_EnumOrder(env, index, num_layer, num_token) ==
    LET ffn == State_ffn(ViewedState(num_layer), index)
    IN  <<hook_op(env, <<"PreFfn", index>>),
          layer_norm(env, <<"ffn_layer_norm", index>>),
          hook_op(env, <<"PostFfnLayerNorm", index>>),
          hook_op(env, <<"PreFfnTokenShift", index>>),
          token_shift(ffn, "ffn_x", "ffn_kx"),
          token_shift(ffn, "ffn_x", "ffn_rx"),
          hook_op(env, <<"PostFfnTokenShift", index>>),
          hook_op(env, <<"PreFfnLinear", index>>),
          matmul_op("ffn.w_k", "ffn_kx", "ffn_k", "SquaredRelu",
                    turbo(num_token)),
          hook_op(env, <<"PostFfnLinear", index>>),
          matmul_op("ffn.w_v", "ffn_k", "ffn_v", "None", turbo(num_token)),
          matmul_op("ffn.w_r", "ffn_rx", "ffn_r", "None", turbo(num_token)),
          hook_op(env, <<"PostFfnActivate", index>>),
          hook_op(env, <<"PreFfnChannelMix", index>>),
          channel_mix(ffn, "ffn_x"),
          hook_op(env, <<"PostFfnChannelMix", index>>),
          add("att_o", "ffn_x"),
          hook_op(env, <<"PostFfn", index>>)>>

\* build_layer, the ops of the feed-forward compute pass.
FfnSteps(env, index, num_layer, num_token) ==
    LET ffn == State_ffn(ViewedState(num_layer), index)
    IN  <<hook_op(env, <<"PreFfn", index>>),
          layer_norm(env, <<"ffn_layer_norm", index>>),
          hook_op(env, <<"PostFfnLayerNorm", index>>),
          hook_op(env, <<"PreFfnTokenShift", index>>),
          token_shift(ffn, "ffn_x", "ffn_kx"),
          token_shift(ffn, "ffn_x", "ffn_rx"),
          hook_op(env, <<"PostFfnTokenShift", index>>),
          hook_op(env, <<"PreFfnLinear", index>>),
          matmul_op("ffn.w_k", "ffn_kx", "ffn_k", "SquaredRelu",
                    turbo(num_token)),
          hook_op(env, <<"PostFfnActivate", index>>),
          matmul_op("ffn.w_v", "ffn_k", "ffn_v", "None", turbo(num_token)),
          matmul_op("ffn.w_r", "ffn_rx", "ffn_r", "None", turbo(num_token)),
          hook_op(env, <<"PostFfnLinear", index>>),
          hook_op(env, <<"PreFfnChannelMix", index>>),
          channel_mix(ffn, "ffn_x"),
          hook_op(env, <<"PostFfnChannelMix", index>>),
          add("att_o", "ffn_x"),
          hook_op(env, <<"PostFfn", index>>)>>

\* The steps of one item of the command encoder: item n, a copy or a compute
\* pass.
InItem(n, item, steps) ==
    [k \in DOMAIN steps |->
        IF steps[k].ok
        THEN [ok |-> TRUE,
              op |-> [n |-> n, item |-> item] @@ steps[k].op]
        ELSE steps[k]]

\* build_layer that copies ffn_x back to input in the last layer too.
LayerOps_AlwaysCopyBack(env, index, num_layer, num_token) ==
    TryOps(InItem(1, "copy", <<CopyTensor("input", "att_x")>>)
           \o InItem(2, "pass", AttSteps(env, index, num_layer, num_token))
           \o InItem(3, "copy", <<CopyTensor("att_o", "ffn_x")>>)
           \o InItem(4, "pass", FfnSteps(env, index, num_layer, num_token))
           \o (IF Rescales(index)
               THEN InItem(5, "pass", <<discount("ffn_x", <<1, 2>>)>>)
               ELSE <<>>)
           \o InItem(IF Rescales(index) THEN 6 ELSE 5, "copy",
                     <<CopyTensor("ffn_x", "input")>>))

\* build_layer: what the encoder of layer `index` records, in order: copy
\* input -> att_x, the attention pass, copy att_o -> ffn_x, the feed-forward
\* pass, the rescale pass every RESCALE_LAYER-th layer, and the copy ffn_x ->
\* input unless the layer is the last.
LayerOps(env, index, num_layer, num_token) ==
    TryOps(InItem(1, "copy", <<CopyTensor("input", "att_x")>>)
           \o InItem(2, "pass", AttSteps(env, index, num_layer, num_token))
           \o InItem(3, "copy", <<CopyTensor("att_o", "ffn_x")>>)
           \o InItem(4, "pass", FfnSteps(env, index, num_layer, num_token))
           \o (IF Rescales(index)
               THEN InItem(5, "pass", <<discount("ffn_x", <<1, 2>>)>>)
               ELSE <<>>)
           \o (IF index # num_layer - 1
               THEN InItem(IF Rescales(index) THEN 6 ELSE 5, "copy",
                           <<CopyTensor("ffn_x", "input")>>)
               ELSE <<>>))

\* A blit of rows [src_start, src_end) of ffn_x into rows [dst_start,
\* dst_end) of head_x.
Blit(src_start, src_end, dst_start, dst_end) ==
    [kind |-> "blit", hook |-> <<>>,
     src_start |-> src_start, src_end |-> src_end,
     dst_start |-> dst_start, dst_end |-> dst_end]

\* The loop of ModelRuntime::build over the headers: `start` and `end` are
\* the loop's variables, headers[k] of the code is headers[k + 1] here.  A
\* failed assert_eq panics; a view out of range is an error.  First the loop
\* that ends a run only at the last header.
RECURSIVE HeadOpsLoop(_, _, _, _, _)
RECURSIVE HeadOpsLoop_FlushAtEnd(_, _, _, _, _)
HeadOpsLoop_FlushAtEnd(num_token, headers, start, end, ops) ==
    IF ~(end <= Len(headers)) THEN [ok |-> TRUE, ops |-> ops]
    ELSE IF end = Len(headers)
    THEN LET first == headers[start + 1]
             last == headers[end]
             input == view_axis1(<<1, num_token, 1, 1>>, first, last + 1)
             output == view_axis1(<<1, Len(headers), 1, 1>>, start, end)
         IN  IF last - first + 1 # end - start
             THEN [ok |-> FALSE,
                   err |-> <<"assert_eq", last - first + 1, end - start>>]
             ELSE IF ~input.ok THEN input
             ELSE IF ~output.ok THEN output
             ELSE HeadOpsLoop_FlushAtEnd(num_token, headers, end, end + 1,
                              Append(ops, Blit(input.start, input.end,
                                               output.start, output.end)))
    ELSE HeadOpsLoop_FlushAtEnd(num_token, headers, start, end + 1, ops)

\* The loop as the code has it.
HeadOpsLoop(num_token, headers, start, end, ops) ==
    IF ~(end <= Len(headers)) THEN [ok |-> TRUE, ops |-> ops]
    ELSE IF end = Len(headers) \/ headers[end] + 1 # headers[end + 1]
    THEN LET first == headers[start + 1]
             last == headers[end]
             input == view_axis1(<<1, num_token, 1, 1>>, first, last + 1)
             output == view_axis1(<<1, Len(headers), 1, 1>>, start, end)
         IN  IF last - first + 1 # end - start
             THEN [ok |-> FALSE,
                   err |-> <<"assert_eq", last - first + 1, end - start>>]
             ELSE IF ~input.ok THEN input
             ELSE IF ~output.ok THEN output
             ELSE HeadOpsLoop(num_token, headers, end, end + 1,
                              Append(ops, Blit(input.start, input.end,
                                               output.start, output.end)))
    ELSE HeadOpsLoop(num_token, headers, start, end + 1, ops)

\* ModelRuntime::build, (head_ops, head_x): with one token, or a header for
\* every token, the head reads ffn_x and there is nothing to blit; otherwise
\* the rows of the headers are gathered into head_x.
head_ops(num_token, headers) ==
    IF num_token = 1 \/ num_token = Len(headers)
    THEN [ok |-> TRUE, ops |-> <<>>, head_x |-> "ffn_x"]
    ELSE LET r == HeadOpsLoop(num_token, headers, 0, 1, <<>>)
         IN  IF r.ok THEN [ok |-> TRUE, ops |-> r.ops, head_x |-> "head_x"]
             ELSE r

\* build_header: with no header the command buffer is empty; otherwise the
\* gathered rows, then the hooks around the layer norm and the matmul of the
\* head.
HeadPassOps(env, num_header, ops) ==
    IF num_header > 0
    THEN LET r == TryOps(<<hook_op(env, <<"PreHead">>),
                           layer_norm(env, <<"head.layer_norm">>),
                           hook_op(env, <<"PostHeadLayerNorm">>),
                           matmul_op("head.w", "head_x", "head_o", "None",
                                     turbo(num_header)),
                           hook_op(env, <<"PostHead">>)>>)
         IN  IF r.ok THEN [ok |-> TRUE, ops |-> ops \o r.ops] ELSE r
    ELSE [ok |-> TRUE, ops |-> <<>>]

\* What recording the command buffer `cmd` gives in a build for a seed.
PassOps(env, device, num_layer, seed, cmd) ==
    IF cmd.pass = "prelude" THEN PreludeOps(env, device)
    ELSE IF cmd.pass = "layer"
    THEN LayerOps(env, cmd.index, num_layer, InferInfo_num_token(seed))
    ELSE LET headers == InferInfo_redirect(seed).headers
             head == head_ops(InferInfo_num_token(seed), headers)
         IN  IF ~head.ok THEN head
             ELSE HeadPassOps(env, Len(headers), head.ops)

\* ------------------------------------------------------------------ system
VARIABLES
    info,         \* ModelInfo of the runtime's model
    embed_device, \* "Gpu" iff the model holds embed.u
    bufs,         \* device memory: buffer id -> contents
    state,        \* the runtime's State S: its buffer and shape
    clone,        \* a deep clone S' of S, once one was made
    host,         \* the host tensor the last init() or back(b) returned
    job,          \* the job under construction or in flight
    queue,        \* the command buffers `job` has handed to the device queue
    ret,          \* the last call and what it returned
    call,         \* the last call of a pure function (SpecFn)
    build         \* a ModelRuntime::build in progress (SpecBuild)

vars == <<info, embed_device, bufs, state, clone, host, job, queue, ret, call,
          build>>

\* The variables of the runtime proper, and those of the other specifications.
rt == <<info, embed_device, bufs, state, clone, host, job, queue, ret>>

Infos == [num_emb : 1..MaxEmb, num_layer : 1..MaxLayer, num_vocab : {2}]

SeqsUpTo(S, lo, hi) == UNION {[1..n -> S] : n \in lo..hi}

\* The seeds of builds and the inputs of loads.
Seeds == SeqsUpTo([len : 0..MaxTok, output : BOOLEAN], 1, MaxBatch)
Inputs == SeqsUpTo(0..MaxTok, 1, MaxBatch + 1)
\* The seeds of the inference steps on S: a batch has one token and asks for
\* output, or has none.  Which rows of the state a job writes depends on
\* which batches have tokens, not on how many.
InferSeeds ==
    {[b \in DOMAIN has |-> [len |-> IF has[b] THEN 1 ELSE 0,
                            output |-> has[b]]] :
        has \in SeqsUpTo(BOOLEAN, 1, MaxBatch)}

NoTensor == [ok |-> FALSE, err |-> <<"None">>]
NoCall == [op |-> "none"]
NoBuild ==
    [pc |-> "idle", async |-> FALSE, num_layer |-> 0, num_token |-> 0,
     id |-> [n |-> 0], created |-> 0, tasks |-> {}, finished |-> <<>>,
     pairs |-> <<>>, commands |-> <<>>, seed |-> <<>>,
     env |-> [hooks |-> {}, failing |-> {}], err |-> <<>>,
     recorded |-> {}, ops |-> <<>>]
\* No job, or what is left of a job that was consumed: its history.
NoJob ==
    [commands |-> <<>>, redirect |-> [headers |-> <<>>, outputs |-> <<>>],
     embed_device |-> "Cpu", cursors_shape |-> <<0, 1, 1, 1>>,
     cursors |-> <<>>, output_shape |-> <<0, 0, 1, 1>>, uploaded |-> {},
     seed |-> <<>>, alive |-> FALSE, loaded |-> FALSE, submitted |-> FALSE,
     backed |-> FALSE]

\* A call record: the operation, the state it was made on ("S", "C" or
\* "-"), its batch argument, whether it returned Ok, and its value.
Ret(op, t, batch, ok, val) ==
    [op |-> op, t |-> t, batch |-> batch, ok |-> ok, val |-> val]

\* ModelRuntime::new(model, nb) for a model of info inf.
Runtime_new(inf, dev, nb) ==
    /\ info = inf
    /\ embed_device = dev
    /\ state = [exists |-> TRUE, buffer |-> 1, shape |-> StateShape(inf, nb)]
    /\ bufs = [b \in 1..2 |-> IF b = 1 THEN StateData(inf, nb) ELSE <<>>]
    /\ clone = [exists |-> FALSE, buffer |-> 0, shape |-> <<0, 0, 0, 0>>]
    /\ host = NoTensor
    /\ job = NoJob
    /\ queue = <<>>
    /\ ret = Ret("new", "S", 0, TRUE, <<>>)
    /\ call = NoCall
    /\ build = NoBuild

\* Every model and batch count within the bounds.  Where the embeddings
\* live plays no part in the operations on the state: one device.
Init ==
    \E inf \in Infos, nb \in 1..MaxBatch : Runtime_new(inf, "Cpu", nb)

Target(t) == IF t = "S" THEN state ELSE clone

\* The host tensors a caller loads: init(), the tensor it last got back, and
\* a tensor of another model's shape.
Tensors ==
    {State_init(info)}
    \cup (IF host.ok THEN {host} ELSE {})
    \cup {State_init([info EXCEPT !.num_layer = @ + 1])}

\* state.init()
StateInit ==
    /\ host' = State_init(info)
    /\ ret' = Ret("init", "S", 0, TRUE, <<>>)
    /\ UNCHANGED <<info, embed_device, bufs, state, clone, job, queue, call, build>>

\* t.load(batch, tensor)
StateLoad(t, batch, tensor) ==
    /\ Target(t).exists
    /\ LET st == Target(t)
           r == State_load(info, st.shape, bufs[st.buffer], batch, tensor)
       IN  /\ bufs' = IF r.ok THEN [bufs EXCEPT ![st.buffer] = r.data]
                      ELSE bufs
           /\ ret' = Ret("load", t, batch, r.ok,
                         IF r.ok THEN <<tensor = State_init(info)>>
                         ELSE r.err)
    /\ UNCHANGED <<info, embed_device, state, clone, host, job, queue, call, build>>

\* t.back(batch).await.  The value of the record says whether the call
\* comes right after a successful t.load(batch, init()).
StateBack(t, batch) ==
    /\ Target(t).exists
    /\ LET st == Target(t)
           r == State_back(st.shape, bufs[st.buffer], batch)
       IN  /\ host' = IF r.ok THEN r ELSE host
           /\ ret' = Ret("back", t, batch, r.ok,
                         IF r.ok
                         THEN <<ret.op = "load" /\ ret.ok /\ ret.t = t
                                /\ ret.batch = batch /\ ret.val = <<TRUE>>>>
                         ELSE r.err)
    /\ UNCHANGED <<info, embed_device, bufs, state, clone, job, queue, call, build>>

\* State::blit_batch(other, from_batch, to_batch): batch from_batch of this
\* state copied into batch to_batch of the other.
State_blit_batch(shape, data, other_shape, other_data, from, to) ==
    copy_tensor_batch(shape, data, other_shape, other_data, from, to)

\* t.blit_batch(other, from, to), other being the state that is not t.
StateBlit(t, from, to) ==
    /\ state.exists /\ clone.exists
    /\ LET st == Target(t)
           other == IF t = "S" THEN clone ELSE state
           r == State_blit_batch(st.shape, bufs[st.buffer], other.shape,
                                 bufs[other.buffer], from, to)
       IN  /\ bufs' = IF r.ok THEN [bufs EXCEPT ![other.buffer] = r.data]
                      ELSE bufs
           /\ ret' = Ret("blit_batch", t, from, r.ok,
                         <<to, IF r.ok THEN <<>> ELSE r.err>>)
    /\ UNCHANGED <<info, embed_device, state, clone, host, job, queue, call, build>>

\* S' = S.deep_clone()
DeepClone ==
    /\ LET r == State_deep_clone(state, bufs)
       IN  /\ clone' = r.state
           /\ bufs' = r.mem
    /\ ret' = Ret("deep_clone", "S", 0, TRUE, <<>>)
    /\ UNCHANGED <<info, embed_device, state, host, job, queue, call, build>>

\* What the device does with the command buffers `cmds` of job j: the
\* contents of the state's buffer afterwards.
Device(j, cmds, zero, clamp) ==
    Exec(state.shape, bufs[state.buffer], cmds,
         Touched(j.cursors, num_batch(state.shape), zero, clamp))

\* One inference step on S: a job is built for the seed, loaded with an
\* input of the seed's token counts, and submitted.
Infer(seed) ==
    /\ \E clamp \in IF Len(seed) > num_batch(state.shape)
                    THEN BOOLEAN ELSE {TRUE} :
        LET built == InferJob(info, embed_device, seed)
            loaded == InferJob_load(info, built,
                                    [b \in 1..Len(seed) |-> seed[b].len])
            sub == InferJob_submit(loaded.job)
        IN  /\ loaded.ok
            /\ bufs' = [bufs EXCEPT ![state.buffer] =
                            Device(loaded.job, sub.taken, FALSE, clamp)]
            /\ ret' = Ret("infer", "S", Len(sub.taken), TRUE, <<>>)
    /\ UNCHANGED <<info, embed_device, state, clone, host, job, queue, call, build>>

\* The batch indices of calls on S and its clone: every batch of the state
\* and the first index past them.
BatchArgs == 0..num_batch(state.shape)

Next ==
    \/ StateInit
    \/ \E t \in {"S", "C"}, b \in BatchArgs, tensor \in Tensors :
        StateLoad(t, b, tensor)
    \/ \E t \in {"S", "C"}, b \in BatchArgs : StateBack(t, b)
    \/ \E t \in {"S", "C"}, from \in BatchArgs, to \in BatchArgs :
        StateBlit(t, from, to)
    \/ DeepClone
    \/ \E seed \in InferSeeds : Infer(seed)

Spec == Init /\ [][Next]_vars

\* ------------------------------------------------------------- job protocol
\* back taking &mut self: the job value outlives the call.
Consumed_StillAlive(j, by_back) ==
    [j EXCEPT !.backed = by_back]

\* A method that takes `self` by value leaves no job to call anything on:
\* the buffers and the commands it still held are dropped with it.
Consumed(j, by_back) ==
    [NoJob EXCEPT !.loaded = j.loaded, !.submitted = j.submitted,
                  !.backed = by_back]

\* job = runtime.build(seed).await: the job replaces the one held before,
\* which is dropped.
JobBuild(seed) ==
    /\ job' = InferJob(info, embed_device, seed)
    /\ queue' = <<>>
    /\ ret' = Ret("job.build", "S", Len(seed), TRUE, <<>>)
    /\ UNCHANGED <<info, embed_device, bufs, state, clone, host, call, build>>

\* A load that also runs the commands of the job on the device.
JobLoad_Running(input) ==
    /\ job.alive
    /\ LET r == InferJob_load(info, job, input)
       IN  /\ job' = IF r.ok THEN [r.job EXCEPT !.loaded = TRUE]
                     ELSE [job EXCEPT !.alive = FALSE]
           /\ bufs' = IF r.ok
                      THEN [bufs EXCEPT ![state.buffer] =
                               Device(r.job, r.job.commands, FALSE, TRUE)]
                      ELSE bufs
           /\ ret' = Ret("job.load", "S", Len(input), r.ok,
                         <<IF r.ok THEN <<>> ELSE r.err, r.wrote>>)
    /\ UNCHANGED <<info, embed_device, state, clone, host, queue, call, build>>

\* job = job.load(input)?
JobLoad(input) ==
    /\ job.alive
    /\ LET r == InferJob_load(info, job, input)
       IN  /\ job' = IF r.ok THEN [r.job EXCEPT !.loaded = TRUE]
                     ELSE [job EXCEPT !.alive = FALSE]
           /\ ret' = Ret("job.load", "S", Len(input), r.ok,
                         <<IF r.ok THEN <<>> ELSE r.err, r.wrote>>)
    /\ UNCHANGED <<info, embed_device, bufs, state, clone, host, queue, call, build>>

\* job.submit(): the taken commands go to the queue and the device runs
\* them, in order, on the state the job was built against.
JobSubmit ==
    /\ job.alive
    /\ \E zero \in BOOLEAN, clamp \in BOOLEAN :
        LET r == InferJob_submit(job)
        IN  /\ job' = [r.job EXCEPT !.submitted = TRUE]
            /\ queue' = queue \o r.taken
            /\ bufs' = [bufs EXCEPT ![state.buffer] =
                            Device(job, r.taken, zero, clamp)]
            /\ ret' = Ret("job.submit", "S", Len(r.taken), TRUE, <<>>)
    /\ UNCHANGED <<info, embed_device, state, clone, host, call, build>>

\* output = job.back().await: the job is consumed.  The record keeps the
\* number of batches and of tokens of the seed the job was built for, and
\* the seed.
JobBack ==
    /\ job.alive
    /\ LET r == InferJob_back(job)
       IN  ret' = Ret("job.back", "S", Len(job.seed), r.ok,
                      <<InferInfo_num_token(job.seed),
                        IF r.ok THEN r.output ELSE r.err, job.seed>>)
    /\ job' = Consumed(job, TRUE)
    /\ UNCHANGED <<info, embed_device, bufs, state, clone, host, queue, call, build>>

NextJob ==
    \/ \E seed \in Seeds : JobBuild(seed)
    \/ \E input \in Inputs : JobLoad(input)
    \/ JobSubmit
    \/ JobBack

\* The embedding width plays no part in the job protocol: one width.
InitJob ==
    \E inf \in Infos, dev \in {"Cpu", "Gpu"}, nb \in 1..MaxBatch :
        inf.num_emb = 1 /\ Runtime_new(inf, dev, nb)

SpecJob == InitJob /\ [][NextJob]_vars

\* ------------------------------------------------------- pure functions
\* The runtime the pure functions are called on: one model, one batch.
InitFn == Runtime_new([num_emb |-> 1, num_layer |-> 1, num_vocab |-> 2],
                      "Cpu", 1)

\* Largest dimension, byte offset and buffer size of a TensorGpu::new call.
MaxDim == 2
MaxOffset == 4
MaxBuffer == 12

\* state.att(l), state.ffn(l) for every layer l of a state of inf and nb.
CallViews(inf, nb) ==
    /\ call.op = "none"
    /\ call' = [op |-> "views", num_layer |-> inf.num_layer,
                shape |-> StateShape(inf, nb),
                att |-> [l \in 1..inf.num_layer |->
                            State_att(StateShape(inf, nb), l - 1)],
                ffn |-> [l \in 1..inf.num_layer |->
                            State_ffn(StateShape(inf, nb), l - 1)]]
    /\ UNCHANGED <<rt, build>>

\* Deepest model whose rescale passes are counted.
MaxDepth == 13

\* The rescale passes build_layer records in each layer of a model of
\* num_layer layers, with no hook registered, and the discount exponent the
\* loader applies to each layer.
CallRescale(num_layer) ==
    /\ call.op = "none"
    /\ call' = [op |-> "rescale", num_layer |-> num_layer,
                passes |-> [l \in 0..(num_layer - 1) |->
                    LET ops == LayerOps([hooks |-> {}, failing |-> {}], l,
                                        num_layer, 1).ops
                    IN  Cardinality({k \in DOMAIN ops :
                                        ops[k].kind = "discount"})],
                exponent |-> [l \in 0..(num_layer - 1) |->
                                 DiscountExponent(l)]]
    /\ UNCHANGED <<rt, build>>

\* What build_layer records for layer `index` of a model of num_layer
\* layers, no hook registered.
CallLayer(num_layer, index) ==
    /\ call.op = "none"
    /\ index < num_layer
    /\ call' = [op |-> "layer", num_layer |-> num_layer, index |-> index,
                ops |-> LayerOps([hooks |-> {}, failing |-> {}], index,
                                 num_layer, 1).ops]
    /\ UNCHANGED <<rt, build>>

\* Most batches, and most tokens of a batch, of a build whose matmuls are
\* looked at: both reach beyond one MIN_TOKEN_CHUNK_SIZE.
MaxChunkBatch == 33
MaxChunkLen == 33

\* The closures of the build in the order it creates them: the prelude, the
\* layers by index, the head.
PassAt(k, num_layer) ==
    IF k = 0 THEN PreludePass
    ELSE IF k <= num_layer THEN LayerPass(k - 1)
    ELSE HeadPass

\* The matmuls of the ops of a command buffer, each with the pass it is in.
MatmulsOf(cmd, r) ==
    IF ~r.ok THEN {}
    ELSE {[pass |-> cmd.pass, index |-> cmd.index, w |-> r.ops[k].w,
           turbo |-> r.ops[k].turbo] :
            k \in {j \in DOMAIN r.ops : r.ops[j].kind = "matmul"}}

\* The matmuls one build records, for a seed of `batches` batches of len
\* tokens each, every batch asking for output or none, on a model of
\* MaxLayer layers with no hook registered.
CallMatmuls(batches, len, output) ==
    /\ call.op = "none"
    /\ LET seed == [b \in 1..batches |-> [len |-> len, output |-> output]]
           env == [hooks |-> {}, failing |-> {}]
       IN  call' = [op |-> "matmuls",
                    num_token |-> InferInfo_num_token(seed),
                    num_header |-> Len(InferInfo_redirect(seed).headers),
                    matmuls |-> UNION {
                        MatmulsOf(PassAt(i, MaxLayer),
                                  PassOps(env, "Gpu", MaxLayer, seed,
                                          PassAt(i, MaxLayer))) :
                        i \in 0..(MaxLayer + 1)}]
    /\ UNCHANGED <<rt, build>>

\* Most tokens of a build whose head blits are computed.
MaxHeadTok == 4

\* The header lists of a build for num_token tokens: the rows of the last
\* tokens of the batches that ask for output, strictly increasing.
RECURSIVE Ascending(_)
Ascending(rows) ==
    IF rows = {} THEN <<>>
    ELSE LET least == CHOOSE r \in rows : \A q \in rows : r <= q
         IN  <<least>> \o Ascending(rows \ {least})

\* The (head_ops, head_x) of build for num_token tokens and the headers
\* `rows`.
CallHeadOps(num_token, rows) ==
    /\ call.op = "none"
    /\ call' = [op |-> "head_ops", num_token |-> num_token,
                headers |-> Ascending(rows),
                res |-> head_ops(num_token, Ascending(rows))]
    /\ UNCHANGED <<rt, build>>

\* The index tuples of the calls of shape_index: in range of the shape or not.
IndexTuples == (0..MaxDim) \X (0..MaxDim) \X (0..MaxDim) \X (0..MaxDim)

\* tensor.shape_index(indices) on a tensor of a shape, for every index tuple.
CallShapeIndex(shape) ==
    /\ call.op = "none"
    /\ call' = [op |-> "shape_index", shape |-> shape,
                index |-> [indices \in IndexTuples |->
                              shape_index(shape, indices)]]
    /\ UNCHANGED <<rt, build>>

\* TensorCpu::new(context, shape, name, data) for data of n elements.
CallTensorCpuNew(shape, n) ==
    /\ call.op = "none"
    /\ call' = [op |-> "cpu_new", shape |-> shape, len |-> n,
                res |-> TensorCpu_new(shape, Rep(0, n))]
    /\ UNCHANGED <<rt, build>>

\* State::embed: backed.slice(.., layer, .., ..), the one row `layer` of
\* axis 1 of the backed state.
State_embed(layer, backed) == slice_axis1(backed, layer, layer + 1)

\* state.embed(layer, backed) for the backed state of one batch of a model.
CallEmbed(inf, layer) ==
    /\ call.op = "none"
    /\ layer < inf.num_layer
    /\ call' = [op |-> "embed", num_layer |-> inf.num_layer, layer |-> layer,
                res |-> State_embed(layer, StateShape(inf, 1))]
    /\ UNCHANGED <<rt, build>>

\* TensorGpu::new(context, shape, name, TensorBuffer { buffer, offset }) for
\* an element type of elem bytes (u8, f16, f32).
CallTensorGpuNew(buffer_size, offset, shape, elem) ==
    /\ call.op = "none"
    /\ call' = [op |-> "gpu_new", buffer_size |-> buffer_size,
                offset |-> offset, shape |-> shape, elem |-> elem,
                res |-> TensorGpu_new(buffer_size, offset, shape, elem)]
    /\ UNCHANGED <<rt, build>>

\* The seeds and inputs of the calls of check: up to two batches.
CheckSeeds == SeqsUpTo([len : 0..MaxTok, output : BOOLEAN], 1, 2)
CheckInputs == SeqsUpTo(0..MaxTok, 1, 2)

\* build(built).await.check(input, seed)
CallCheck(built, input, seed) ==
    /\ call.op = "none"
    /\ call' = [op |-> "check", built |-> built, input |-> input,
                seed |-> seed,
                res |-> InferJob_check(InferJob(info, embed_device, built),
                                       input, seed)]
    /\ UNCHANGED <<rt, build>>

\* No call was made yet: a behaviour is one call.
NoCallYet == call.op = "none"

NextFn ==
    \/ NoCallYet /\ \E inf \in Infos, nb \in 1..MaxBatch : CallViews(inf, nb)
    \/ NoCallYet /\ \E inf \in Infos, layer \in 0..(MaxLayer - 1) :
        CallEmbed(inf, layer)
    \/ NoCallYet /\ \E d0 \in 0..MaxDim, d1 \in 0..MaxDim, d2 \in 0..MaxDim,
                        d3 \in 0..MaxDim :
        CallShapeIndex(<<d0, d1, d2, d3>>)
    \/ NoCallYet /\ \E num_layer \in 1..MaxDepth : CallRescale(num_layer)
    \/ NoCallYet /\ \E num_layer \in 1..MaxDepth,
                        index \in 0..(MaxDepth - 1) :
        CallLayer(num_layer, index)
    \/ NoCallYet /\ \E batches \in 1..MaxChunkBatch, len \in 0..MaxChunkLen,
                        output \in BOOLEAN :
        CallMatmuls(batches, len, output)
    \/ NoCallYet /\ \E num_token \in 1..MaxHeadTok :
        \E rows \in SUBSET (0..(num_token - 1)) : CallHeadOps(num_token, rows)
    \/ NoCallYet /\ \E d0 \in 0..MaxDim, d1 \in 0..MaxDim, d2 \in 0..MaxDim,
                        d3 \in 0..MaxDim,
                        n \in 0..(MaxDim * MaxDim * MaxDim * MaxDim + 1) :
        CallTensorCpuNew(<<d0, d1, d2, d3>>, n)
    \/ NoCallYet /\ \E buffer_size \in 0..MaxBuffer, offset \in 0..MaxOffset,
                        d0 \in 0..MaxDim, d1 \in 0..MaxDim,
                        elem \in {1, 2, 4} :
        CallTensorGpuNew(buffer_size, offset, <<d0, d1, 1, 1>>, elem)
    \/ NoCallYet /\ \E built \in CheckSeeds, input \in CheckInputs,
                        seed \in CheckSeeds :
        CallCheck(built, input, seed)

SpecFn == InitFn /\ [][NextFn]_vars

\* --------------------------------------------------- recording of a build
\* PassId::new and PassId::inc: inc hands out the current id and steps the
\* counter, so the ids handed out increase strictly.
PassId_new == [n |-> 0]
PassId_inc(id) == [given |-> id.n, id |-> [n |-> id.n + 1]]

\* sorted_by_key(|x| x.0): the pairs (id, command buffer) by increasing id
\* (a stable sort; the ids of one build are distinct).
RECURSIVE SortedByKey(_)
SortedByKey(pairs) ==
    IF pairs = <<>> THEN <<>>
    ELSE LET k == CHOOSE i \in 1..Len(pairs) :
                    \A j \in 1..Len(pairs) :
                        \/ pairs[i].id < pairs[j].id
                        \/ (pairs[i].id = pairs[j].id /\ i <= j)
             rest == [j \in 1..(Len(pairs) - 1) |->
                        IF j < k THEN pairs[j] ELSE pairs[j + 1]]
         IN  <<pairs[k]>> \o SortedByKey(rest)

\* The end of build without the sort: the pairs as they were joined.
CollectCommands_Unsorted(pairs) ==
    [k \in 1..Len(pairs) |-> pairs[k].cmd]

\* The end of ModelRuntime::build: the collected pairs sorted by PassId, the
\* command buffers kept.
CollectCommands(pairs) ==
    LET sorted == SortedByKey(pairs)
    IN  [k \in 1..Len(sorted) |-> sorted[k].cmd]

\* The seeds of the recorded builds: one batch of every length, asking for
\* output or not, and two batches of which the second alone asks for output.
BuildSeeds ==
    {<<[len |-> n, output |-> o]>> : n \in 0..MaxTok, o \in BOOLEAN}
        \cup {<<[len |-> 1, output |-> FALSE],
                [len |-> MaxTok, output |-> TRUE]>>}

\* The hook maps and models of the recorded builds: no producer or a
\* producer at every point, none failing; one failing step, any producer or
\* shape check; two failing steps in different passes.
BuildEnvs(num_layer) ==
    LET passes == {<<"PostEmbedLayerNorm">>, <<"PostHead">>}
                      \cup {<<"PreAtt", l>> : l \in 0..(num_layer - 1)}
    IN  {[hooks |-> h, failing |-> {}] : h \in {{}, Hooks(num_layer)}}
            \cup {[hooks |-> {}, failing |-> {s}] :
                    s \in Hooks(num_layer) \cup Norms(num_layer)}
            \cup {[hooks |-> Hooks(num_layer), failing |-> f] :
                    f \in {g \in SUBSET passes : Cardinality(g) = 2}}

\* build(seed) is called, with or without the async-build feature, on a
\* runtime whose hook map and model are env.  num_token = 0 returns at once,
\* with no commands.  Otherwise the blits of the head and the ops of the
\* prelude are made here, before any closure: an error returns it.
BuildBegin(seed, async, env) ==
    /\ build.pc = "idle"
    /\ LET num_token == InferInfo_num_token(seed)
           head == head_ops(num_token, InferInfo_redirect(seed).headers)
           prelude == PreludeOps(env, embed_device)
           begun == [pc |-> "record", async |-> async,
                     num_layer |-> info.num_layer, num_token |-> num_token,
                     id |-> PassId_new, created |-> 0, tasks |-> {},
                     finished |-> <<>>, pairs |-> <<>>, commands |-> <<>>,
                     seed |-> seed, env |-> env, err |-> <<>>,
                     recorded |-> {}, ops |-> <<>>]
       IN  /\ build' = IF num_token = 0 THEN [begun EXCEPT !.pc = "done"]
                       ELSE IF ~head.ok
                       THEN [begun EXCEPT !.pc = "failed", !.err = head.err]
                       ELSE IF ~prelude.ok
                       THEN [begun EXCEPT !.pc = "failed",
                                          !.err = prelude.err]
                       ELSE begun
           /\ job' = IF num_token = 0
                     THEN [InferJob(info, embed_device, seed)
                              EXCEPT !.commands = <<>>]
                     ELSE NoJob
           /\ ret' = Ret("build", "S", Len(seed), num_token = 0, <<>>)
    /\ queue' = <<>>
    /\ UNCHANGED <<info, embed_device, bufs, state, clone, host, call>>

\* The next closure is created with the next PassId.  With async-build it is
\* spawned on the blocking pool; without, it runs here: its pair is pushed,
\* or its error returned.  A task keeps whether its recording succeeded; the
\* ops of a command buffer are those of its pass.
BuildCreate ==
    /\ build.pc = "record"
    /\ build.created < build.num_layer + 2
    /\ LET inc == PassId_inc(build.id)
           cmd == PassAt(build.created, build.num_layer)
           ops == PassOps(build.env, embed_device, build.num_layer,
                          build.seed, cmd)
           res == IF ops.ok THEN [ok |-> TRUE] ELSE ops
           task == [id |-> inc.given, cmd |-> cmd, res |-> res]
       IN  build' = IF build.async
                    THEN [build EXCEPT !.id = inc.id, !.created = @ + 1,
                                       !.tasks = @ \cup {task}]
                    ELSE IF res.ok
                    THEN [build EXCEPT !.id = inc.id, !.created = @ + 1,
                                       !.pairs = Append(@, task),
                                       !.recorded = @ \cup {task.id}]
                    ELSE [build EXCEPT !.pc = "failed", !.err = res.err]
    /\ UNCHANGED <<rt, call>>

\* A spawned task finishes recording, at any time after it was spawned.
TaskFinish(task) ==
    /\ build.pc = "record"
    /\ task \in build.tasks
    /\ build' = [build EXCEPT
                    !.tasks = @ \ {task},
                    !.finished = Append(@, task),
                    !.recorded = IF task.res.ok THEN @ \cup {task.id}
                                 ELSE @]
    /\ UNCHANGED <<rt, call>>

\* A join that drops the results that are errors.
BuildJoin_SkipErrors ==
    /\ build.pc = "record"
    /\ build.created = build.num_layer + 2
    /\ build.finished # <<>>
    /\ build' = [build EXCEPT
                    !.finished = Tail(@),
                    !.pairs = IF Head(build.finished).res.ok
                              THEN Append(@, Head(build.finished)) ELSE @]
    /\ UNCHANGED <<rt, call>>

\* tasks.join_next().await once every closure was created: the tasks are
\* handed over in the order they finished.  commands.push(result??): the
\* error of a task returns, and the join set is dropped with the tasks and
\* the results it holds.
BuildJoin ==
    /\ build.pc = "record"
    /\ build.created = build.num_layer + 2
    /\ build.finished # <<>>
    /\ build' = IF Head(build.finished).res.ok
                THEN [build EXCEPT
                         !.finished = Tail(@),
                         !.pairs = Append(@, Head(build.finished))]
                ELSE [build EXCEPT
                         !.pc = "failed",
                         !.err = Head(build.finished).res.err,
                         !.tasks = {}, !.finished = <<>>]
    /\ UNCHANGED <<rt, call>>

\* Nothing is left to join: the job is returned with the command buffers
\* sorted by PassId.
BuildReturn ==
    /\ build.pc = "record"
    /\ build.created = build.num_layer + 2
    /\ build.tasks = {} /\ build.finished = <<>>
    /\ build' = [build EXCEPT
                    !.pc = "done",
                    !.commands = CollectCommands(build.pairs),
                    !.ops = LET commands == CollectCommands(build.pairs)
                            IN  [k \in DOMAIN commands |->
                                    PassOps(build.env, embed_device,
                                            build.num_layer, build.seed,
                                            commands[k]).ops]]
    /\ job' = [InferJob(info, embed_device, build.seed)
                  EXCEPT !.commands = CollectCommands(build.pairs)]
    /\ ret' = Ret("build", "S", Len(build.seed), TRUE, <<>>)
    /\ UNCHANGED <<info, embed_device, bufs, state, clone, host, queue, call>>

\* The job a build returned is submitted once, if at all.
BuildSubmit ==
    /\ build.pc = "done"
    /\ ~job.submitted
    /\ JobSubmit

NextBuild ==
    \/ build.pc = "idle" /\ \E seed \in BuildSeeds, async \in BOOLEAN,
                                env \in BuildEnvs(info.num_layer) :
        BuildBegin(seed, async, env)
    \/ BuildCreate
    \/ \E task \in build.tasks : TaskFinish(task)
    \/ BuildJoin
    \/ BuildReturn
    \/ BuildSubmit

\* The builds are recorded on a model of every depth, with the embeddings on
\* either device.
InitBuild ==
    \E num_layer \in 1..MaxLayer, dev \in {"Cpu", "Gpu"} :
        Runtime_new([num_emb |-> 1, num_layer |-> num_layer,
                     num_vocab |-> 2], dev, MaxBatch)

SpecBuild == InitBuild /\ [][NextBuild]_vars

\* ================================================================== claims
\* The batches of a state of shape `shape`.
Batches(shape) == 0..(num_batch(shape) - 1)

\* What t.back(b) would return for every batch b, were it called on the
\* device memory mem.
BackAll(st, mem) ==
    [b \in Batches(st.shape) |-> State_back(st.shape, mem[st.buffer], b)]

\* C1: init() returns a host tensor of shape (num_emb, 5*num_layer, 1, 1)
\* whose element (i, 5l+3, 0, 0) is f32::MIN and whose elements at rows 5l,
\* 5l+1, 5l+2 and 5l+4 are zero, for every layer l and every i < num_emb,
\* whatever the batch count of the state.
C1_InitLayout ==
    ret.op = "init" =>
        /\ host.ok
        /\ host.shape = <<info.num_emb, 5 * info.num_layer, 1, 1>>
        /\ Len(host.data) = info.num_emb * 5 * info.num_layer
        /\ \A l \in 0..(info.num_layer - 1), c \in 0..4,
              i \in 0..(info.num_emb - 1) :
              host.data[shape_index(host.shape, <<i, 5 * l + c, 0, 0>>) + 1]
                  = IF c = 3 THEN F32_MIN ELSE 0

\* init() has returned for the largest model, on a state of several batches.
C1_Witness ==
    /\ ret.op = "init"
    /\ info.num_emb = MaxEmb /\ info.num_layer = MaxLayer
    /\ num_batch(state.shape) = MaxBatch

\* The rows a view covers.
Rows(v) == v.start..(v.end - 1)

\* C2: for every layer l, att(l) covers rows [5l, 5l+4) and ffn(l) covers
\* [5l+4, 5l+5); the 2*num_layer ranges are pairwise disjoint and their
\* union is [0, 5*num_layer).
C2_ViewsPartition ==
    call.op = "views" =>
        LET L == 1..call.num_layer
            ranges == [k \in 1..(2 * call.num_layer) |->
                        IF k <= call.num_layer THEN Rows(call.att[k])
                        ELSE Rows(call.ffn[k - call.num_layer])]
        IN  /\ \A l \in L :
                /\ call.att[l].ok /\ call.ffn[l].ok
                /\ Rows(call.att[l]) = (5 * (l - 1))..(5 * (l - 1) + 3)
                /\ Rows(call.ffn[l]) = {5 * (l - 1) + 4}
            /\ \A j, k \in DOMAIN ranges :
                j # k => ranges[j] \cap ranges[k] = {}
            /\ UNION {ranges[k] : k \in DOMAIN ranges}
                    = 0..(5 * call.num_layer - 1)

\* The views of every layer of the deepest model were taken.
C2_Witness ==
    /\ call.op = "views"
    /\ call.num_layer = MaxLayer
    /\ call.shape[3] = MaxBatch

\* C3: on any state reached by loads and submitted jobs, and for any batch
\* b < B, load(b, init()) immediately followed by back(b) returns a host
\* tensor equal to init(), shape and values.
C3_LoadBackRoundTrip ==
    (ret.op = "back" /\ ret.ok /\ ret.val = <<TRUE>>) =>
        host = State_init(info)

\* The round trip was made on a batch other than the first of a state whose
\* other batches no longer hold their initial values.
C3_Witness ==
    /\ ret.op = "back" /\ ret.ok /\ ret.val = <<TRUE>>
    /\ ret.batch > 0
    /\ State_back(Target(ret.t).shape, bufs[Target(ret.t).buffer], 0)
            # State_init(info)

\* C4: once S' = S.deep_clone() exists, a submitted job or a load against S
\* leaves S'.back(b) as it was for every batch b < B, and a load against S'
\* leaves S.back(b) as it was.
C4_CloneIsolation ==
    [][(clone.exists /\ ret'.op \in {"infer", "load"}) =>
          IF ret'.t = "S"
          THEN BackAll(clone, bufs') = BackAll(clone, bufs)
          ELSE BackAll(state, bufs') = BackAll(state, bufs)]_vars

\* A job has run on S after the clone was made: S has moved on, the clone
\* still holds the initial values.
C4_Witness ==
    /\ clone.exists
    /\ ret.op = "infer" /\ ret.batch > 0
    /\ bufs[state.buffer] # bufs[clone.buffer]
    /\ \A b \in Batches(clone.shape) :
            State_back(clone.shape, bufs[clone.buffer], b) = State_init(info)

\* C5: a job built for a seed of num_token = 0 has an empty command list;
\* submitting it hands no command buffer to the queue and leaves the device
\* memory as it was; its back() returns Ok with one slot per batch of the
\* seed, every slot of zero rows.
C5_EmptyJob ==
    /\ [](job.alive /\ InferInfo_num_token(job.seed) = 0
            => job.commands = <<>>)
    /\ [][(job.alive /\ InferInfo_num_token(job.seed) = 0
            /\ ret'.op = "job.submit")
            => (ret'.batch = 0 /\ queue' = queue /\ bufs' = bufs)]_vars
    /\ []((ret.op = "job.back" /\ ret.val[1] = 0) =>
            /\ ret.ok
            /\ Len(ret.val[2]) = ret.batch
            /\ \A b \in 1..Len(ret.val[2]) :
                /\ ret.val[2][b].ok
                /\ ret.val[2][b].shape[2] = 0
                /\ ShapeLen(ret.val[2][b].shape) = 0)

\* A job of several batches and no token was loaded, submitted and read
\* back.
C5_Witness ==
    /\ ret.op = "job.back" /\ ret.val[1] = 0
    /\ ret.batch = MaxBatch
    /\ job.loaded /\ job.submitted /\ job.backed
    /\ queue = <<>>

\* C6: check(input, info) on a job is true exactly when input.num_token is
\* the num_token the job was built for and info.redirect is the redirect of
\* the job; either mismatch alone makes it false.
C6_CheckIff ==
    call.op = "check" =>
        (call.res <=>
            /\ InferChunk_num_token(call.input)
                    = InferInfo_num_token(call.built)
            /\ InferInfo_redirect(call.seed)
                    = InferInfo_redirect(call.built))

\* check returned false for an input of the right num_token whose info has
\* another redirect.
C6_Witness ==
    /\ call.op = "check" /\ ~call.res
    /\ InferChunk_num_token(call.input) = InferInfo_num_token(call.built)
    /\ InferInfo_num_token(call.built) > 0
    /\ InferInfo_redirect(call.seed) # InferInfo_redirect(call.built)

\* The tasks of the build that exist, running, finished or joined.
BuildTasks ==
    build.tasks \cup {build.finished[k] : k \in DOMAIN build.finished}
                \cup {build.pairs[k] : k \in DOMAIN build.pairs}

\* C7: for num_token > 0 the command list of the job is [prelude, layer 0,
\* ..., layer num_layer-1, head], num_layer + 2 entries, the list sequential
\* recording produces, whatever order the recording tasks finish in; every
\* task holds, from its creation on, the PassId of its place in that order.
C7_RecordingOrder ==
    /\ \A task \in BuildTasks :
        /\ task.id \in 0..(build.created - 1)
        /\ task.cmd = PassAt(task.id, build.num_layer)
    /\ (build.pc = "done" /\ build.num_token > 0) =>
        /\ build.commands = SequentialCommands(build.num_layer)
        /\ Len(build.commands) = build.num_layer + 2

\* A parallel build of the deepest model has returned after its tasks were
\* joined head first.
C7_Witness ==
    /\ build.pc = "done" /\ build.async /\ build.num_token > 0
    /\ build.num_layer = MaxLayer
    /\ build.pairs[1].cmd = HeadPass

\* C8: TensorGpu::new succeeds exactly when offset + shape.len * sizeof(T)
\* <= buffer.size and fails with Overflow exactly when it is greater; a
\* tensor that ends at the end of the buffer is accepted.
C8_OverflowExactly ==
    call.op = "gpu_new" =>
        LET end == call.offset + ShapeLen(call.shape) * call.elem
        IN  /\ call.res.ok <=> end <= call.buffer_size
            /\ ~call.res.ok =>
                call.res.err = <<"Overflow", call.buffer_size, call.offset,
                                 ShapeLen(call.shape) * call.elem>>

\* C9: a load whose input has another number of batches than the state the
\* job was built against fails with BatchSize(len(tokens), num_batch) and
\* uploads nothing.
C9_BatchSizeMismatch ==
    (ret.op = "job.load" /\ ret.batch # num_batch(state.shape)) =>
        /\ ~ret.ok
        /\ ret.val[1] = <<"BatchSize", ret.batch, num_batch(state.shape)>>
        /\ ret.val[2] = {}

\* C10 as stated: commands reach the queue only from a job that was loaded,
\* back is reached only on a job that was loaded and submitted, and nothing
\* but a new build follows back.
C10_StrictOrder ==
    /\ queue # <<>> => job.loaded
    /\ job.backed => (job.loaded /\ job.submitted)
    /\ job.backed => ~job.alive

\* C10 amended: back consumes the job, so Backed is terminal: after back
\* there is no job to load, submit or read back, and the only step on is a
\* new build.  (Load and submit are not ordered by the job.)
C10_BackedTerminal ==
    /\ [](job.backed => ~job.alive)
    /\ [](ret.op = "job.back" => job.backed)
    /\ [][job.backed => ret'.op = "job.build"]_vars

\* A job went the whole way: loaded, submitted with commands, read back.
C10_Witness ==
    /\ job.backed /\ job.loaded /\ job.submitted
    /\ queue # <<>>
    /\ ret.op = "job.back" /\ ret.ok

\* The recording steps a build for the seed goes through: none without a
\* token; the head's only with a header.
BuildSteps ==
    IF build.num_token = 0 THEN {}
    ELSE PreludeHooks \cup {<<"embed.layer_norm">>}
         \cup UNION {LayerHooks(l) \cup {<<"att_layer_norm", l>>,
                                         <<"ffn_layer_norm", l>>} :
                        l \in 0..(build.num_layer - 1)}
         \cup (IF InferInfo_redirect(build.seed).headers # <<>>
               THEN HeadHooks \cup {<<"head.layer_norm">>} ELSE {})

HooksOf(ops) ==
    LET IsHook(op) == op.hook # <<>>
        hooked == SelectSeq(Flatten(ops), IsHook)
    IN  [k \in DOMAIN hooked |-> hooked[k].hook]

\* The hook points of a layer in the order they run.
LayerOrder ==
    <<"PreAtt", "PostAttLayerNorm", "PreAttTokenShift", "PostAttTokenShift",
      "PreAttLinear", "PostAttLinear", "PreAttTimeMix", "PostAttTimeMix",
      "PreAttOut", "PostAttOut", "PostAtt", "PreFfn", "PostFfnLayerNorm",
      "PreFfnTokenShift", "PostFfnTokenShift", "PreFfnLinear",
      "PostFfnActivate", "PostFfnLinear", "PreFfnChannelMix",
      "PostFfnChannelMix", "PostFfn">>

\* The order of the hook points of a build: the prelude's, every layer's by
\* increasing layer, and the head's when `head` is set.
HookOrder(num_layer, head) ==
    <<<<"PostEmbedLoaded">>, <<"PostEmbedLayerNorm">>>>
        \o Flatten([l \in 1..num_layer |->
                       [k \in DOMAIN LayerOrder |-> <<LayerOrder[k], l - 1>>]])
        \o (IF head
            THEN <<<<"PreHead">>, <<"PostHeadLayerNorm">>, <<"PostHead">>>>
            ELSE <<>>)

\* Every hook op of a command list is the producer's when the map has an
\* entry for the point and an empty op when it has none.
HookOpsFollowMap ==
    \A c \in DOMAIN build.ops : \A k \in DOMAIN build.ops[c] :
        LET op == build.ops[c][k]
        IN  op.hook # <<>> =>
                op.kind = (IF op.hook \in build.env.hooks THEN "user"
                           ELSE "empty")

\* C12 as stated: every build with num_token > 0 records each hook point
\* exactly once in the order prelude, layers, head, the three points of the
\* head included.
C12_AllHooksInOrder ==
    (build.pc = "done" /\ build.num_token > 0) =>
        /\ HooksOf(build.ops) = HookOrder(build.num_layer, TRUE)
        /\ HookOpsFollowMap

\* C12: every build with num_token > 0 records each hook point of the
\* prelude and of every layer exactly once, in the order prelude, layers by
\* increasing index, each layer in its listed order; the three points of the
\* head follow, each once, exactly when some batch asks for output, and are
\* not recorded at all otherwise.  A point with no map entry is an empty op.
C12_HooksInOrder ==
    (build.pc = "done" /\ build.num_token > 0) =>
        /\ HooksOf(build.ops) =
            HookOrder(build.num_layer,
                      InferInfo_redirect(build.seed).headers # <<>>)
        /\ HookOpsFollowMap

\* A parallel build with a producer at every point returned a job for a
\* seed with tokens and no batch asking for output.
C12_Witness ==
    /\ build.pc = "done" /\ build.async /\ build.num_token > 0
    /\ build.num_layer = MaxLayer
    /\ build.env.hooks # {}
    /\ InferInfo_redirect(build.seed).headers = <<>>
    /\ Len(HooksOf(build.ops)) = 2 + 21 * MaxLayer

\* C13: back returns one slot per batch of the seed, in batch order.  The
\* slot of a batch that has tokens and asks for output is the one row of the
\* logits at the position of the batch among those that ask, num_vocab wide;
\* the slot of a batch that does not ask, or has no token, is empty; the
\* slots are contiguous row ranges of the logits in batch order.
C13_OutputSlots ==
    ret.op = "job.back" =>
        LET seed == ret.val[3]
            output == ret.val[2]
            Asks(b) == seed[b].len > 0 /\ seed[b].output
            Before(b) == Cardinality({c \in 1..(b - 1) : Asks(c)})
        IN  /\ ret.ok
            /\ Len(output) = Len(seed)
            /\ \A b \in 1..Len(seed) :
                /\ output[b].start = Before(b)
                /\ output[b].end = Before(b) + (IF Asks(b) THEN 1 ELSE 0)
                /\ output[b].shape =
                    <<info.num_vocab, IF Asks(b) THEN 1 ELSE 0, 1, 1>>

\* The output of a submitted job was read back for a seed whose first batch
\* asks for output and whose second does not: a row, then an empty slot
\* after it.
C13_Witness ==
    /\ ret.op = "job.back" /\ ret.ok /\ job.submitted
    /\ Len(ret.val[3]) = 2
    /\ ret.val[2][1].shape = <<info.num_vocab, 1, 1, 1>>
    /\ ret.val[2][2].start = 1 /\ ret.val[2][2].shape[2] = 0

\* C14: State::embed(layer, backed), for the backed state of one batch of
\* shape (num_emb, 5 * num_layer, 1, 1) and layer < num_layer, returns rows
\* that lie inside [5 * layer, 5 * layer + 5), never rows of another layer.
C14_EmbedOwnLayer ==
    call.op = "embed" =>
        /\ call.res.ok
        /\ call.res.start < call.res.end
        /\ 5 * call.layer <= call.res.start
        /\ call.res.end <= 5 * call.layer + 5

\* The error of a batch index out of range of a state of `max` batches.
BatchOutOfRange(batch, max) == <<"BatchOutOfRange", batch, max>>

\* The batch count of the state a call was made on, and of the other one.
RetBatches == num_batch(Target(ret.t).shape)

C16_OnlySubmitWrites ==
    [][/\ ret'.op \in {"job.build", "job.load"} =>
            /\ BackAll(state, bufs') = BackAll(state, bufs)
            /\ state' = state
       /\ bufs' # bufs => ret'.op = "job.submit"]_vars

\* A job was built and loaded with tokens, not submitted, on a state that an
\* earlier job had moved away from its initial values.
C16_Witness ==
    /\ ret.op = "job.load" /\ ret.ok /\ ret.val[2] # {}
    /\ job.loaded /\ ~job.submitted /\ queue = <<>>
    /\ bufs[state.buffer] # StateData(info, num_batch(state.shape))

\* C17: the construction of a host tensor from (shape, data) succeeds if and
\* only if data.len = d0 * d1 * d2 * d3; otherwise it fails with the Size
\* error that carries (shape.len, data.len) and no tensor is made.
C17_SizeIff ==
    call.op = "cpu_new" =>
        LET product == call.shape[1] * call.shape[2] * call.shape[3]
                           * call.shape[4]
        IN  /\ call.res.ok <=> call.len = product
            /\ call.res.ok =>
                /\ call.res.shape = call.shape
                /\ Len(call.res.data) = product
            /\ ~call.res.ok =>
                /\ call.res.err = <<"Size", product, call.len>>
                /\ DOMAIN call.res = {"ok", "err"}

\* Data one element longer than a shape with no dimension of 1 was refused.
C17_Witness ==
    /\ call.op = "cpu_new" /\ ~call.res.ok
    /\ \A k \in 1..4 : call.shape[k] > 1
    /\ call.len = ShapeLen(call.shape) + 1

\* The index tuples in range of a shape: every i_k < d_k.
InRange(shape) ==
    {indices \in IndexTuples : \A k \in 1..4 : indices[k] < shape[k]}

\* C18: shape_index of a tensor of shape (d0, d1, d2, d3) at (i0, i1, i2, i3)
\* is ((i3*d2 + i2)*d1 + i1)*d0 + i0; for the index tuples with every
\* i_k < d_k it is below shape.len, and distinct tuples have distinct
\* results.
C18_ShapeIndex ==
    call.op = "shape_index" =>
        LET d == call.shape
        IN  /\ \A i \in IndexTuples :
                call.index[i] =
                    i[1] + d[1] * i[2] + d[1] * d[2] * i[3]
                        + d[1] * d[2] * d[3] * i[4]
            /\ \A i \in InRange(d) :
                call.index[i] < d[1] * d[2] * d[3] * d[4]
            /\ \A i \in InRange(d) : \A j \in InRange(d) :
                call.index[i] = call.index[j] => i = j

\* The indices of a tensor with MaxDim elements along every axis.
C18_Witness ==
    /\ call.op = "shape_index"
    /\ call.shape = <<MaxDim, MaxDim, MaxDim, MaxDim>>
    /\ call.index[<<MaxDim - 1, MaxDim - 1, MaxDim - 1, MaxDim - 1>>]
            = ShapeLen(call.shape) - 1
    /\ Cardinality(InRange(call.shape)) > 1

\* The blits of a head that write row i of head_x.
BlitsInto(ops, i) ==
    {k \in DOMAIN ops : ops[k].dst_start <= i /\ i < ops[k].dst_end}

\* C19: for num_token > 0 and strictly increasing headers below num_token:
\* when there is a header for every token, or one token, the head reads
\* ffn_x and no blit is recorded; otherwise the blits copy row headers[i] of
\* ffn_x into row i of head_x for every i, each row of head_x written by
\* exactly one blit and no other row written, one blit per maximal run of
\* consecutive headers; the assertion on the length of a run never fails.
C19_HeadGather ==
    call.op = "head_ops" =>
        LET n == Len(call.headers)
            ops == call.res.ops
            breaks == {i \in 1..(n - 1) :
                          call.headers[i] + 1 # call.headers[i + 1]}
        IN  /\ call.res.ok
            /\ IF n = call.num_token \/ call.num_token = 1
               THEN ops = <<>> /\ call.res.head_x = "ffn_x"
               ELSE /\ call.res.head_x = "head_x"
                    /\ \A i \in 0..(n - 1) :
                        /\ Cardinality(BlitsInto(ops, i)) = 1
                        /\ \A k \in BlitsInto(ops, i) :
                            ops[k].src_start + (i - ops[k].dst_start)
                                = call.headers[i + 1]
                    /\ \A k \in DOMAIN ops :
                        /\ 0 <= ops[k].dst_start
                        /\ ops[k].dst_start < ops[k].dst_end
                        /\ ops[k].dst_end <= n
                        /\ ops[k].src_end - ops[k].src_start
                            = ops[k].dst_end - ops[k].dst_start
                    /\ Len(ops) = (IF n = 0 THEN 0
                                   ELSE Cardinality(breaks) + 1)

\* The headers of the most tokens fall into a run of two rows and a run of
\* one: two blits.
C19_Witness ==
    /\ call.op = "head_ops" /\ call.num_token = MaxHeadTok
    /\ Len(call.headers) = 3
    /\ call.headers[1] + 1 = call.headers[2]
    /\ call.headers[2] + 1 < call.headers[3]
    /\ Len(call.res.ops) = 2
    /\ call.res.ops[1].dst_end - call.res.ops[1].dst_start = 2

\* The sum of f over the layers 0..l-1.
RECURSIVE SumBelow(_, _)
SumBelow(f, l) == IF l = 0 THEN 0 ELSE f[l - 1] + SumBelow(f, l - 1)

\* C20: the 0.5 rescale of ffn_x is recorded, once, in the layer of index i
\* exactly when (i + 1) mod RESCALE_LAYER = 0, RESCALE_LAYER being 6; so for
\* every layer l the number of rescale passes in the layers 0..l-1 is
\* floor(l / RESCALE_LAYER), the exponent of the discount 2^(-floor(l /
\* RESCALE_LAYER)) applied to w_o and the ffn w_v of layer l at load.
C20_RescaleMatchesDiscount ==
    call.op = "rescale" =>
        \A l \in 0..(call.num_layer - 1) :
            /\ call.passes[l] = (IF (l + 1) % 6 = 0 THEN 1 ELSE 0)
            /\ SumBelow(call.passes, l) = l \div 6
            /\ call.exponent[l] = SumBelow(call.passes, l)
            /\ RESCALE_LAYER = 6

\* The deepest model: two rescale passes lie before its last layer, whose
\* weights are discounted by 2^-2.
C20_Witness ==
    /\ call.op = "rescale" /\ call.num_layer = MaxDepth
    /\ call.passes[5] = 1 /\ call.passes[11] = 1
    /\ call.exponent[MaxDepth - 1] = 2

\* The ops of item n of an encoder, as the set of their positions.
ItemOps(ops, n) == {k \in DOMAIN ops : ops[k].n = n}

\* Whether op is the copy of buffer src into buffer dst, an item of its own.
IsCopy(op, src, dst) ==
    /\ op.kind = "copy_tensor" /\ op.item = "copy"
    /\ op.src = src /\ op.dst = dst

\* C21: the command buffer of a layer records, in this order, the copy
\* input -> att_x, the attention compute pass, the copy att_o -> ffn_x, the
\* feed-forward compute pass, the rescale pass when the layer has one, and
\* last the copy ffn_x -> input, present if and only if the layer is not the
\* last; nothing else writes `input`, so the next layer starts from the
\* final (rescaled) ffn_x of this one and the last layer leaves `input` as
\* it was.
C21_LayerSteps ==
    call.op = "layer" =>
        LET ops == call.ops
            rescale == IF (call.index + 1) % 6 = 0 THEN 1 ELSE 0
            back == IF call.index # call.num_layer - 1 THEN 1 ELSE 0
        IN  /\ \A j \in DOMAIN ops : \A k \in DOMAIN ops :
                j < k => ops[j].n <= ops[k].n
            /\ {ops[k].n : k \in DOMAIN ops} = 1..(4 + rescale + back)
            /\ ItemOps(ops, 1) = {1} /\ IsCopy(ops[1], "input", "att_x")
            /\ \A k \in ItemOps(ops, 2) :
                ops[k].item = "pass" /\ ops[k].kind # "copy_tensor"
            /\ \E k \in ItemOps(ops, 2) : ops[k].kind = "time_mix_v4"
            /\ \E k \in DOMAIN ops :
                ItemOps(ops, 3) = {k} /\ IsCopy(ops[k], "att_o", "ffn_x")
            /\ \A k \in ItemOps(ops, 4) :
                ops[k].item = "pass" /\ ops[k].kind # "copy_tensor"
            /\ \E k \in ItemOps(ops, 4) : ops[k].kind = "channel_mix"
            /\ \A k \in DOMAIN ops :
                ops[k].kind \in {"time_mix_v4", "token_shift"}
                    /\ ops[k].x \in {"att_x", "aux_x"} => ops[k].n = 2
            /\ \A k \in DOMAIN ops :
                ops[k].kind = "discount" =>
                    /\ rescale = 1 /\ ItemOps(ops, 5) = {k}
                    /\ ops[k].item = "pass"
                    /\ ops[k].x = "ffn_x" /\ ops[k].factor = <<1, 2>>
            /\ rescale = 1 => \E k \in DOMAIN ops : ops[k].kind = "discount"
            /\ IsCopy(ops[Len(ops)], "ffn_x", "input") <=> back = 1
            /\ \A k \in DOMAIN ops :
                ("dst" \in DOMAIN ops[k] /\ ops[k].dst = "input") =>
                    k = Len(ops)

\* A layer that has a rescale pass and is not the last: six items, the last
\* the copy back into input.
C21_Witness ==
    /\ call.op = "layer" /\ call.index = 5 /\ call.num_layer = MaxDepth
    /\ call.ops[Len(call.ops)].n = 6
    /\ call.ops[Len(call.ops)].kind = "copy_tensor"
    /\ call.ops[Len(call.ops) - 1].kind = "discount"

\* The weights of the seven matmuls of a layer.
LayerMatmuls ==
    {"att.w_k", "att.w_v", "att.w_r", "att.w_o", "ffn.w_k", "ffn.w_v",
     "ffn.w_r"}

\* Every layer of the build records its seven matmuls.
AllLayerMatmuls ==
    \A l \in 0..(MaxLayer - 1) : \A w \in LayerMatmuls :
        \E m \in call.matmuls : m.pass = "layer" /\ m.index = l /\ m.w = w

\* C22 as stated: every matmul of one build, the head matmul included, gets
\* the same turbo flag, num_token mod MIN_TOKEN_CHUNK_SIZE = 0.
C22_OneTurboFlag ==
    call.op = "matmuls" /\ call.num_token > 0 =>
        /\ AllLayerMatmuls
        /\ \A m \in call.matmuls :
            m.turbo = (call.num_token % MIN_TOKEN_CHUNK_SIZE = 0)

\* C22, amended: the seven matmuls of every layer get the flag
\* turbo(num_token), num_token mod MIN_TOKEN_CHUNK_SIZE = 0, and the head
\* matmul, recorded when num_header > 0, gets turbo(num_header),
\* num_header mod MIN_TOKEN_CHUNK_SIZE = 0.
C22_TurboFlags ==
    call.op = "matmuls" /\ call.num_token > 0 =>
        /\ AllLayerMatmuls
        /\ \A m \in call.matmuls :
            /\ m.pass \in {"layer", "head"}
            /\ m.pass = "layer" =>
                /\ m.w \in LayerMatmuls
                /\ m.turbo = (call.num_token % MIN_TOKEN_CHUNK_SIZE = 0)
            /\ m.pass = "head" =>
                /\ m.w = "head.w"
                /\ m.turbo = (call.num_header % MIN_TOKEN_CHUNK_SIZE = 0)
        /\ call.num_header > 0 <=> \E m \in call.matmuls : m.pass = "head"

\* A build of one chunk of tokens with one header: the layers' matmuls are
\* turbo, the head matmul is not.
C22_Witness ==
    /\ call.op = "matmuls"
    /\ call.num_token = MIN_TOKEN_CHUNK_SIZE /\ call.num_header = 1
    /\ \E m \in call.matmuls : m.pass = "layer" /\ m.turbo
    /\ \E m \in call.matmuls : m.pass = "head" /\ ~m.turbo

\* C23 as stated: a load that returns Ok was given as many tokens as the job
\* was built for (dim 0 of its cursor tensor), and a load given another
\* number of tokens fails and uploads nothing.
C23_OkOnlyOnMatch ==
    [][\A input \in Inputs :
        JobLoad(input) =>
            LET n == InferChunk_num_token(input)
            IN  /\ ret'.ok => n = job.cursors_shape[1]
                /\ n # job.cursors_shape[1] =>
                    ~ret'.ok /\ ret'.val[2] = {}]_vars

\* C23, amended: a load that returns Ok was given no token at all, and then
\* uploads nothing and leaves the job as it was, or as many tokens as the
\* job was built for, and then uploads the cursors; a load given a number of
\* tokens that is neither zero nor the job's fails with the Size error of
\* the cursor tensor, uploads nothing and drops the job.
C23_OkOnMatchOrEmpty ==
    [][\A input \in Inputs :
        JobLoad(input) =>
            LET n == InferChunk_num_token(input)
                built == job.cursors_shape[1]
            IN  /\ ret'.ok => n = 0 \/ n = built
                /\ n = 0 =>
                    /\ ret'.ok /\ ret'.val[2] = {}
                    /\ job'.uploaded = job.uploaded
                    /\ job'.cursors = job.cursors
                /\ (ret'.ok /\ n # 0) =>
                    /\ "cursors" \in ret'.val[2]
                    /\ Len(job'.cursors) = built
                /\ (n # 0 /\ n # built) =>
                    /\ ~ret'.ok /\ ret'.val[2] = {}
                    /\ ret'.val[1] = <<"Size", built, n>>
                    /\ ~job'.alive]_vars

\* A job built for two tokens was given one token: the load failed with the
\* Size error and uploaded nothing.
C23_Witness ==
    /\ ret.op = "job.load" /\ ~ret.ok
    /\ ret.val = <<(<<"Size", 2, 1>>), {}>>
    /\ job.cursors_shape[1] = 2 /\ ~job.alive /\ job.uploaded = {}

\* No element occurs twice in the sequence q.
NoRepeat(q) == \A i \in DOMAIN q : \A k \in DOMAIN q : i # k => q[i] # q[k]

\* C24: over any sequence of submit() on one job every command buffer is
\* handed to the queue at most once: the first submit moves the whole list
\* of the job to the queue in one submission, in the order of the list, and
\* leaves the list empty; every later submit submits nothing.
C24_SubmitOnce ==
    [][JobSubmit =>
        /\ job'.commands = <<>>
        /\ NoRepeat(queue')
        /\ ~job.submitted =>
            /\ queue = <<>>
            /\ job.commands = BuildCommands(info, job.cursors_shape[1])
            /\ queue' = job.commands
            /\ ret'.batch = Len(job.commands)
        /\ job.submitted =>
            /\ job.commands = <<>>
            /\ queue' = queue
            /\ ret'.batch = 0]_vars

\* A job with command buffers was submitted twice: the second submit handed
\* nothing over, the queue holds the list of the first.
C24_Witness ==
    /\ ret.op = "job.submit" /\ ret.batch = 0
    /\ job.submitted /\ job.commands = <<>>
    /\ queue = BuildCommands(info, job.cursors_shape[1]) /\ queue # <<>>

\* C25: right after ModelRuntime::new(model, B) the state has the shape
\* (num_emb, 5*num_layer, B, 1) and back(b) equals init() for every b < B:
\* row 5l+3 of every layer l is f32::MIN and every other row is zero.
C25_FreshState ==
    ret.op = "new" =>
        /\ state.shape = <<info.num_emb, 5 * info.num_layer,
                           num_batch(state.shape), 1>>
        /\ Len(bufs[state.buffer]) = ShapeLen(state.shape)
        /\ \A b \in 0..(num_batch(state.shape) - 1) :
            LET back == State_back(state.shape, bufs[state.buffer], b)
            IN  /\ back.ok
                /\ back.shape = State_init(info).shape
                /\ back.data = State_init(info).data
                /\ \A l \in 0..(info.num_layer - 1), c \in 0..4,
                      i \in 0..(info.num_emb - 1) :
                      back.data[shape_index(back.shape,
                                            <<i, 5 * l + c, 0, 0>>) + 1]
                          = IF c = 3 THEN F32_MIN ELSE 0

\* The runtime of the largest model was created with several batches and
\* nothing was called on it yet: its last batch reads back as init().
C25_Witness ==
    /\ ret.op = "new"
    /\ info.num_emb = MaxEmb /\ info.num_layer = MaxLayer
    /\ num_batch(state.shape) = MaxBatch /\ MaxBatch > 1
    /\ State_back(state.shape, bufs[state.buffer], MaxBatch - 1).data
           = State_init(info).data

\* The positions of the ops of the given kind that reference the rows
\* `view` of the state.
OpsOn(ops, kind, view) ==
    {k \in DOMAIN ops :
        /\ ops[k].kind = kind
        /\ "state" \in DOMAIN ops[k] /\ ops[k].state = view}

\* C26: within every layer l the three attention token shifts on att(l)
\* come before time_mix_v4 on att(l), and the two feed-forward token shifts
\* on ffn(l) come before channel_mix on ffn(l); the ops of layer l reference
\* no view of the state other than att(l), rows [5l, 5l+4), and ffn(l), row
\* 5l+4.
C26_ShiftsBeforeMix ==
    call.op = "layer" =>
        LET ops == call.ops
            att == <<5 * call.index, 5 * call.index + 4>>
            ffn == <<5 * call.index + 4, 5 * call.index + 5>>
        IN  /\ Cardinality(OpsOn(ops, "token_shift", att)) = 3
            /\ {ops[k].out : k \in OpsOn(ops, "token_shift", att)}
                   = {"att_kx", "att_vx", "att_rx"}
            /\ Cardinality(OpsOn(ops, "time_mix_v4", att)) = 1
            /\ \A s \in OpsOn(ops, "token_shift", att) :
                \A m \in OpsOn(ops, "time_mix_v4", att) : s < m
            /\ Cardinality(OpsOn(ops, "token_shift", ffn)) = 2
            /\ {ops[k].out : k \in OpsOn(ops, "token_shift", ffn)}
                   = {"ffn_kx", "ffn_rx"}
            /\ Cardinality(OpsOn(ops, "channel_mix", ffn)) = 1
            /\ \A s \in OpsOn(ops, "token_shift", ffn) :
                \A m \in OpsOn(ops, "channel_mix", ffn) : s < m
            /\ \A k \in DOMAIN ops :
                /\ ops[k].kind \in {"token_shift", "time_mix_v4",
                                    "channel_mix"}
                       <=> "state" \in DOMAIN ops[k]
                /\ "state" \in DOMAIN ops[k] =>
                    /\ ops[k].state \in {att, ffn}
                    /\ ops[k].state = att <=> ops[k].kind # "channel_mix"
                                              /\ ops[k].n = 2
                    /\ ops[k].state = ffn => ops[k].n = 4

\* The last layer of the deepest model: its time mix is on rows
\* [5l, 5l+4) and its channel mix on row 5l+4, l = MaxDepth - 1.
C26_Witness ==
    /\ call.op = "layer"
    /\ call.num_layer = MaxDepth /\ call.index = MaxDepth - 1
    /\ \E k \in DOMAIN call.ops :
        /\ call.ops[k].kind = "time_mix_v4"
        /\ call.ops[k].state = <<5 * (MaxDepth - 1), 5 * (MaxDepth - 1) + 4>>
    /\ \E k \in DOMAIN call.ops :
        /\ call.ops[k].kind = "channel_mix"
        /\ call.ops[k].state = <<5 * MaxDepth - 1, 5 * MaxDepth>>

=============================================================================
